---- MODULE Spec2Model ----
(***************************************************************************)
(* Verification model of pygoodle: the trio based TaskPool                 *)
(* (pygoodle/tasks/task_pool.py, pygoodle/console.py) and the git          *)
(* reference model (pygoodle/git).                                         *)
(*                                                                         *)
(* Several specifications share the module.  Spec runs the task pool and   *)
(* leaves the git repository alone, LiveSpec adds the scheduling of trio,  *)
(* NestedSpec adds runs made from inside run(), and LegacySpec runs the    *)
(* pool of pygoodle/task_pool.py; GitSpec runs the git operations and      *)
(* QuerySpec the pure ones, and both leave the pool alone.                 *)
(***************************************************************************)
EXTENDS Integers, Sequences, FiniteSets, TLC

(***************************************************************************)
(* Bounds of the model.                                                    *)
(***************************************************************************)
MaxTasks == 3

MaxJobs == 2

(***************************************************************************)
(* Task pool state.                                                        *)
(***************************************************************************)
VARIABLES
    print_output,     \* CONSOLE.print_output
    jobs,             \* TaskPool._jobs
    cancelled,        \* TaskPool.cancelled
    results,          \* TaskPool._results ("None" until the first run)
    tasks,            \* the list handed to TaskPool.run
    pc,               \* position of the coroutine TaskPool._run
    next,             \* index of the task the for loop is at
    ts,               \* position of each task's _run_task / worker thread
    borrowers,        \* CapacityLimiter._borrowers: names holding a token
    cancel_called,    \* nursery.cancel_scope.cancel_called
    main_exc,         \* what the for loop of _run raised
    child_exc,        \* tasks whose _run_task raised an error of run()
    before_tasks,     \* calls of pool.before_tasks in this run
    after_tasks,      \* calls of pool.after_tasks in this run
    before_task,      \* per task: calls of pool.before_task + task.before_task
    task_after,       \* per task: calls of task.after_task
    pool_after,       \* per task: calls of pool.after_task
    admitted,         \* task indices in the order their token was acquired
    at_after_tasks,   \* what pool.after_tasks saw when it ran
    outcome,          \* how the last TaskPool.run ended
    retval            \* the list the last TaskPool.run returned

poolVars == <<print_output, jobs, cancelled, results, tasks, pc, next, ts,
              borrowers, cancel_called, main_exc, child_exc, before_tasks,
              after_tasks, before_task, task_after, pool_after, admitted,
              at_after_tasks, outcome, retval>>

(***************************************************************************)
(* Git repository state: the repository on disk at Repo.path and what the  *)
(* last operation on it did.                                               *)
(***************************************************************************)
VARIABLES
    local_branches,   \* refs/heads/<name>: the sha each local branch is at
    remotes,          \* remote.<name>.url in .git/config
    remote_refs,      \* refs/remotes/<remote>/<name> present in the repository
    upstream,         \* branch.<name>.remote and .merge in .git/config
    remote_head,      \* .git/refs/remotes/<remote>/HEAD: the branch it names
    stray_head,       \* <path>/refs/remotes/<remote>/HEAD: the name written
    last              \* the operation that produced this state, and its end

gitRepo == <<local_branches, remotes, remote_refs, upstream, remote_head,
             stray_head>>

gitVars == <<gitRepo, last>>

vars == <<poolVars, gitVars>>

Names == {"a", "b", "c"}

\* A task: its Task.name.  The value its run() returns is the task's position
\* in the input list; whether run() returns or raises is up to the task.
TaskRecs == [name : Names]

TaskLists == UNION {[1..n -> TaskRecs] : n \in 0..MaxTasks}

Idx == 1..Len(tasks)

\* Task.name of the task at input position i.
NameOf(i) == tasks[i].name

\* TaskPool.__init__ and the module level CONSOLE.
PoolInit ==
    /\ print_output = TRUE
    /\ jobs \in 1..MaxJobs
    /\ cancelled = FALSE
    /\ results = "None"
    /\ tasks = <<>>
    /\ pc = "idle"
    /\ next = 1
    /\ ts = <<>>
    /\ borrowers = {}
    /\ cancel_called = FALSE
    /\ main_exc = "none"
    /\ child_exc = {}
    /\ before_tasks = 0
    /\ after_tasks = 0
    /\ before_task = <<>>
    /\ task_after = <<>>
    /\ pool_after = <<>>
    /\ admitted = <<>>
    /\ at_after_tasks = [cancelled |-> FALSE, pending |-> {}]
    /\ outcome = "none"
    /\ retval = <<>>

(***************************************************************************)
(* disable_output (console.py): the flag is cleared before the wrapped     *)
(* call and set again when it returns or raises.                           *)
(***************************************************************************)
WrapperEnter == FALSE

WrapperExitKeepsOnRaise(raised) == IF raised THEN print_output ELSE TRUE

\* A wrapper that leaves the flag as the wrapped call left it.
WrapperExitLeavesFlag(raised) == print_output

WrapperExit(raised) == TRUE

(***************************************************************************)
(* trio.CapacityLimiter as _run and _run_task use it.                      *)
(***************************************************************************)
\* A limiter that does not look at who holds its tokens.
AlreadyBorrowerNever(name) == FALSE

\* acquire_on_behalf_of_nowait: a borrower that already holds a token is an
\* error (RuntimeError), whatever the capacity.
AlreadyBorrower(name) == name \in borrowers

HasTokenUnbounded(b) == TRUE

\* acquire_on_behalf_of_nowait: a token is free.
HasToken(b) == Cardinality(b) < jobs

\* A release that leaves the token with its borrower.
release_on_behalf_of_Kept(b, name) == b

\* release_on_behalf_of.
release_on_behalf_of(b, name) == b \ {name}

ResetKeepsResults(old) == IF old = "None" THEN <<>> ELSE old

\* self._results = []
ResetResults(old) == <<>>

LoopOrderSkipsFirst(k) == IF k = 1 /\ Len(tasks) > 1 THEN 2 ELSE IF k = 2 THEN 1 ELSE k

\* for task in tasks: the k-th iteration handles the k-th task.
LoopOrder(k) == k

\* A run that starts by clearing the cancelled flag.
RunBeginResetsCancelled(tl) ==
    /\ pc = "idle"
    /\ print_output' = WrapperEnter
    /\ tasks' = tl
    /\ borrowers' = {}
    /\ cancel_called' = FALSE
    /\ before_tasks' = 1
    /\ after_tasks' = 0
    /\ results' = ResetResults(results)
    /\ ts' = [i \in 1..Len(tl) |-> "new"]
    /\ before_task' = [i \in 1..Len(tl) |-> 0]
    /\ task_after' = [i \in 1..Len(tl) |-> 0]
    /\ pool_after' = [i \in 1..Len(tl) |-> 0]
    /\ next' = 1
    /\ admitted' = <<>>
    /\ main_exc' = "none"
    /\ child_exc' = {}
    /\ at_after_tasks' = [cancelled |-> FALSE, pending |-> {}]
    /\ outcome' = "none"
    /\ retval' = <<>>
    /\ pc' = "loop"
    /\ cancelled' = FALSE
    /\ UNCHANGED jobs
    /\ UNCHANGED gitVars

(***************************************************************************)
(* TaskPool.run, wrapped by disable_output, up to the for loop of _run:    *)
(* the flag is cleared, trio.run starts _run, the nursery and the limiter  *)
(* are created, before_tasks runs and the result list is reset.            *)
(***************************************************************************)
RunBegin(tl) ==
    /\ pc = "idle"
    /\ print_output' = WrapperEnter
    /\ tasks' = tl
    /\ borrowers' = {}
    /\ cancel_called' = FALSE
    /\ before_tasks' = 1
    /\ after_tasks' = 0
    /\ results' = ResetResults(results)
    /\ ts' = [i \in 1..Len(tl) |-> "new"]
    /\ before_task' = [i \in 1..Len(tl) |-> 0]
    /\ task_after' = [i \in 1..Len(tl) |-> 0]
    /\ pool_after' = [i \in 1..Len(tl) |-> 0]
    /\ next' = 1
    /\ admitted' = <<>>
    /\ main_exc' = "none"
    /\ child_exc' = {}
    /\ at_after_tasks' = [cancelled |-> FALSE, pending |-> {}]
    /\ outcome' = "none"
    /\ retval' = <<>>
    /\ pc' = "loop"
    /\ UNCHANGED <<jobs, cancelled>>
    /\ UNCHANGED gitVars

(***************************************************************************)
(* One pass of `await limit.acquire_on_behalf_of(task.name)` for the k-th  *)
(* iteration, up to the point where the coroutine yields:                  *)
(*   - the loop is over: the nursery block is left and waits for children; *)
(*   - the scope is cancelled: the checkpoint raises Cancelled;            *)
(*   - the name holds a token already: RuntimeError, handled by the        *)
(*     except clause of the loop (cancel the scope, cancelled = True);     *)
(*   - a token is free: it is taken;                                       *)
(*   - otherwise the coroutine parks until a token is released.            *)
(***************************************************************************)
TryAcquire(k) ==
    IF k > Len(tasks)
    THEN /\ pc' = "join"
         /\ UNCHANGED <<borrowers, cancel_called, cancelled, main_exc, admitted>>
    ELSE IF cancel_called
    THEN /\ pc' = "aborted"
         /\ UNCHANGED <<borrowers, cancel_called, cancelled, main_exc, admitted>>
    ELSE IF AlreadyBorrower(NameOf(LoopOrder(k)))
    THEN /\ cancel_called' = TRUE
         /\ cancelled' = TRUE
         /\ main_exc' = "RuntimeError"
         /\ pc' = "join"
         /\ UNCHANGED <<borrowers, admitted>>
    ELSE IF HasToken(borrowers)
    THEN /\ borrowers' = borrowers \cup {NameOf(LoopOrder(k))}
         /\ admitted' = Append(admitted, LoopOrder(k))
         /\ pc' = "acquired"
         /\ UNCHANGED <<cancel_called, cancelled, main_exc>>
    ELSE /\ pc' = "parked"
         /\ UNCHANGED <<borrowers, cancel_called, cancelled, main_exc, admitted>>

\* The first iteration of the for loop.
LoopEnter ==
    /\ pc = "loop"
    /\ TryAcquire(next)
    /\ UNCHANGED <<print_output, jobs, results, tasks, next, ts, child_exc,
                   before_tasks, after_tasks, before_task, task_after,
                   pool_after, at_after_tasks, outcome, retval>>
    /\ UNCHANGED gitVars

\* The coroutine resumes holding the token of the current task: it hands the
\* task to the nursery (start_soon) and goes on to the next acquire.
StartSoon ==
    /\ pc \in {"acquired", "granted"}
    /\ ts' = [ts EXCEPT ![LoopOrder(next)] = "started"]
    /\ next' = next + 1
    /\ TryAcquire(next + 1)
    /\ UNCHANGED <<print_output, jobs, results, tasks, child_exc,
                   before_tasks, after_tasks, before_task, task_after,
                   pool_after, at_after_tasks, outcome, retval>>
    /\ UNCHANGED gitVars

\* Cancelled reaches the for loop: except BaseException of the loop
\* (cancel the scope, cancelled = True, re-raise into the nursery).
LoopCancelled ==
    /\ pc = "aborted"
    /\ cancel_called' = TRUE
    /\ cancelled' = TRUE
    /\ main_exc' = "Cancelled"
    /\ pc' = "join"
    /\ UNCHANGED <<print_output, jobs, results, tasks, next, ts, borrowers,
                   child_exc, before_tasks, after_tasks, before_task,
                   task_after, pool_after, admitted, at_after_tasks, outcome,
                   retval>>
    /\ UNCHANGED gitVars

(***************************************************************************)
(* _run_task.                                                              *)
(***************************************************************************)
EntryCheckpointIgnoresCancel(c) == "entering"

\* The checkpoint at the entry of trio.to_thread.run_sync: Cancelled is raised
\* there if the scope is cancelled, otherwise the call goes on to its thread.
EntryCheckpoint(c) == IF c THEN "cancelling" ELSE "entering"

\* First step of _run_task: the before hooks, then trio.to_thread.run_sync,
\* whose entry checkpoint raises Cancelled if the scope is cancelled.
TaskStart(i) ==
    /\ i \in Idx
    /\ ts[i] = "started"
    /\ before_task' = [before_task EXCEPT ![i] = @ + 1]
    /\ ts' = [ts EXCEPT ![i] = EntryCheckpoint(cancel_called)]
    /\ UNCHANGED <<print_output, jobs, cancelled, results, tasks, pc, next,
                   borrowers, cancel_called, main_exc, child_exc, before_tasks,
                   after_tasks, task_after, pool_after, admitted,
                   at_after_tasks, outcome, retval>>
    /\ UNCHANGED gitVars

\* run_sync starts the worker thread: task.run() begins.  The function is
\* not cancellable from here on.
ThreadStart(i) ==
    /\ i \in Idx
    /\ ts[i] = "entering"
    /\ ts' = [ts EXCEPT ![i] = "running"]
    /\ UNCHANGED <<print_output, jobs, cancelled, results, tasks, pc, next,
                   borrowers, cancel_called, main_exc, child_exc, before_tasks,
                   after_tasks, before_task, task_after, pool_after, admitted,
                   at_after_tasks, outcome, retval>>
    /\ UNCHANGED gitVars

\* The worker thread: task.run() returns.  The value reaches the coroutine
\* when the event loop reschedules it.
ThreadReturn(i) ==
    /\ i \in Idx
    /\ ts[i] = "running"
    /\ ts' = [ts EXCEPT ![i] = "returned"]
    /\ UNCHANGED <<print_output, jobs, cancelled, results, tasks, pc, next,
                   borrowers, cancel_called, main_exc, child_exc, before_tasks,
                   after_tasks, before_task, task_after, pool_after, admitted,
                   at_after_tasks, outcome, retval>>
    /\ UNCHANGED gitVars

\* The worker thread: task.run() raises.  The error reaches the coroutine
\* when the event loop reschedules it.
ThreadRaise(i) ==
    /\ i \in Idx
    /\ ts[i] = "running"
    /\ ts' = [ts EXCEPT ![i] = "raised"]
    /\ UNCHANGED <<print_output, jobs, cancelled, results, tasks, pc, next,
                   borrowers, cancel_called, main_exc, child_exc, before_tasks,
                   after_tasks, before_task, task_after, pool_after, admitted,
                   at_after_tasks, outcome, retval>>
    /\ UNCHANGED gitVars

\* finally of _run_task: task.after_task(), self.after_task(task).
AfterHooks(i) ==
    /\ task_after' = [task_after EXCEPT ![i] = @ + 1]
    /\ pool_after' = [pool_after EXCEPT ![i] = @ + 1]

\* run() returned: the result is appended under the lock, the after hooks
\* run and the token is released; a parked for loop is woken with the token.
TaskDone(i) ==
    /\ i \in Idx
    /\ ts[i] = "returned"
    /\ results' = Append(results, i)
    /\ AfterHooks(i)
    /\ ts' = [ts EXCEPT ![i] = "done"]
    /\ IF pc = "parked"
       THEN /\ borrowers' = release_on_behalf_of(borrowers, NameOf(i))
                               \cup {NameOf(LoopOrder(next))}
            /\ admitted' = Append(admitted, LoopOrder(next))
            /\ pc' = "granted"
       ELSE /\ borrowers' = release_on_behalf_of(borrowers, NameOf(i))
            /\ UNCHANGED <<admitted, pc>>
    /\ UNCHANGED <<print_output, jobs, cancelled, tasks, next, cancel_called,
                   main_exc, child_exc, before_tasks, after_tasks, before_task,
                   at_after_tasks, outcome, retval>>
    /\ UNCHANGED gitVars

TaskFailedNoFinally(i) ==
    /\ i \in Idx
    /\ ts[i] \in {"raised", "cancelling"}
    /\ cancelled' = TRUE
    /\ cancel_called' = TRUE
    /\ pc' = IF pc = "parked" THEN "aborted" ELSE pc
    /\ child_exc' = IF ts[i] = "raised" THEN child_exc \cup {i} ELSE child_exc
    /\ ts' = [ts EXCEPT ![i] = "done"]
    /\ UNCHANGED <<print_output, jobs, results, tasks, next, main_exc, borrowers,
                   before_tasks, after_tasks, before_task, admitted, task_after,
                   pool_after, at_after_tasks, outcome, retval>>
    /\ UNCHANGED gitVars

\* A cancellation that does not wake the for loop waiting for a token.
TaskFailedLeavesParked(i) ==
    /\ i \in Idx
    /\ ts[i] \in {"raised", "cancelling"}
    /\ cancelled' = TRUE
    /\ cancel_called' = TRUE
    /\ child_exc' = IF ts[i] = "raised" THEN child_exc \cup {i} ELSE child_exc
    /\ AfterHooks(i)
    /\ borrowers' = release_on_behalf_of(borrowers, NameOf(i))
    /\ ts' = [ts EXCEPT ![i] = "done"]
    /\ UNCHANGED <<print_output, jobs, results, tasks, next, main_exc, pc,
                   before_tasks, after_tasks, before_task, admitted,
                   at_after_tasks, outcome, retval>>
    /\ UNCHANGED gitVars

\* run() raised, or run_sync raised Cancelled: except BaseException of
\* _run_task (cancelled = True, cancel the scope, re-raise), then finally.
\* Cancelling the scope wakes a parked for loop with Cancelled.
TaskFailed(i) ==
    /\ i \in Idx
    /\ ts[i] \in {"raised", "cancelling"}
    /\ cancelled' = TRUE
    /\ cancel_called' = TRUE
    /\ pc' = IF pc = "parked" THEN "aborted" ELSE pc
    /\ child_exc' = IF ts[i] = "raised" THEN child_exc \cup {i} ELSE child_exc
    /\ AfterHooks(i)
    /\ borrowers' = release_on_behalf_of(borrowers, NameOf(i))
    /\ ts' = [ts EXCEPT ![i] = "done"]
    /\ UNCHANGED <<print_output, jobs, results, tasks, next, main_exc,
                   before_tasks, after_tasks, before_task, admitted,
                   at_after_tasks, outcome, retval>>
    /\ UNCHANGED gitVars

\* A nursery block that does not wait for the worker threads.
ChildrenDoneNoWait == \A i \in Idx : ts[i] \in {"new", "done", "running"}

\* The nursery block ends once every child has finished.
ChildrenDone == \A i \in Idx : ts[i] \in {"new", "done"}

\* The nursery re-raises what the loop or a child raised, Cancelled excepted.
NurseryRaises == main_exc = "RuntimeError" \/ child_exc # {}

(***************************************************************************)
(* The end of _run and of the wrapper: `return self._results`, or          *)
(* except BaseException (cancelled = True, re-raise); finally after_tasks; *)
(* disable_output sets the flag again.                                     *)
(***************************************************************************)
RunEnd ==
    /\ pc = "join"
    /\ ChildrenDone
    /\ cancelled' = (cancelled \/ NurseryRaises)
    /\ after_tasks' = after_tasks + 1
    /\ at_after_tasks' =
          [cancelled |-> cancelled',
           pending |-> {i \in Idx : before_task[i] > 0
                                    /\ (task_after[i] = 0 \/ pool_after[i] = 0)}]
    /\ outcome' = IF NurseryRaises THEN "raised" ELSE "returned"
    /\ retval' = IF NurseryRaises THEN <<>> ELSE results
    /\ print_output' = WrapperExit(NurseryRaises)
    /\ pc' = "idle"
    /\ UNCHANGED <<jobs, results, tasks, next, ts, borrowers, cancel_called,
                   main_exc, child_exc, before_tasks, before_task, task_after,
                   pool_after, admitted>>
    /\ UNCHANGED gitVars

PoolNext ==
    \/ \E tl \in TaskLists : RunBegin(tl)
    \/ LoopEnter
    \/ StartSoon
    \/ LoopCancelled
    \/ \E i \in 1..MaxTasks : TaskStart(i)
    \/ \E i \in 1..MaxTasks : ThreadStart(i)
    \/ \E i \in 1..MaxTasks : ThreadReturn(i)
    \/ \E i \in 1..MaxTasks : ThreadRaise(i)
    \/ \E i \in 1..MaxTasks : TaskDone(i)
    \/ \E i \in 1..MaxTasks : TaskFailed(i)
    \/ RunEnd

(***************************************************************************)
(* Properties of the task pool.                                            *)
(***************************************************************************)
\* Tasks whose token is held: acquired for them and not yet released.
Holding ==
    {i \in Idx : ts[i] \in {"started", "entering", "cancelling", "running",
                            "returned", "raised"}}
        \cup (IF pc \in {"acquired", "granted"} THEN {next} ELSE {})

\* Tasks whose run() body is executing on a worker thread.
InRun == {i \in Idx : ts[i] = "running"}

\* Some task's run() has raised in the current run.
RunRaised == \E j \in Idx : ts[j] = "raised" \/ j \in child_exc

\* r holds the value of every input task exactly once.
IsPermutation(r) ==
    /\ Len(r) = Len(tasks)
    /\ \A i \in Idx : Cardinality({k \in 1..Len(r) : r[k] = i}) = 1

NamesDistinct == \A i, j \in Idx : i # j => NameOf(i) # NameOf(j)

\* C1: at every instant at most `jobs` tasks hold a limiter token, and so at
\* most `jobs` tasks are inside their run() body.
C1_ConcurrencyBound ==
    /\ Cardinality(Holding) <= jobs
    /\ Cardinality(InRun) <= jobs

C1_Witness ==
    /\ jobs = 2
    /\ Cardinality(InRun) = 2
    /\ pc = "parked"

\* C2 as stated: once some task's run() has raised, no task whose run() body
\* had not started by then starts it; cancelled becomes true and run raises.
C2_Original ==
    [][(pc # "idle" /\ RunRaised) =>
          /\ \A i \in Idx : ts[i] \in {"new", "started", "entering"}
                               => ts'[i] # "running"
          /\ (pc' = "idle" => cancelled' /\ outcome' = "raised")]_vars

\* C2 amended: once the failure has been handled by the event loop (the error
\* handler of _run_task has cancelled the scope), no task that has not yet
\* passed the entry checkpoint of to_thread.run_sync passes it, and run()
\* bodies start only from there; handling a failure sets cancelled and cancels
\* the scope, and a run in which some run() raised ends raising with
\* cancelled true.
C2_Cancellation ==
    [][pc # "idle" =>
          /\ cancel_called =>
                \A i \in Idx : ts[i] \in {"new", "started", "cancelling"}
                                  => ts'[i] \notin {"entering", "running"}
          /\ \A i \in Idx : (ts[i] # "running" /\ ts'[i] = "running")
                               => ts[i] = "entering"
          /\ child_exc' # child_exc => (cancelled' /\ cancel_called')
          /\ (pc' = "idle" /\ RunRaised) => (cancelled' /\ outcome' = "raised")]_vars

C2_Witness ==
    /\ pc = "idle"
    /\ outcome = "raised"
    /\ cancelled
    /\ child_exc # {}
    /\ \E i \in Idx : ts[i] = "new"
    /\ \E i \in Idx : /\ ts[i] = "done"
                      /\ i \notin child_exc
                      /\ \A k \in 1..Len(results) : results[k] # i

\* C3: when a run() raised, by the time the error reaches the caller the
\* after hooks (task.after_task, pool.after_task) have run exactly once for
\* every task whose before hooks ran, and pool.after_tasks has run exactly
\* once, after all of them and with cancelled true.
C3_CleanupHooks ==
    /\ \A i \in Idx : task_after[i] <= 1 /\ pool_after[i] <= 1
    /\ after_tasks <= 1
    /\ (pc = "idle" /\ outcome = "raised" /\ child_exc # {}) =>
          /\ \A i \in Idx : before_task[i] > 0
                               => task_after[i] = 1 /\ pool_after[i] = 1
          /\ after_tasks = 1
          /\ at_after_tasks.cancelled
          /\ at_after_tasks.pending = {}

C3_Witness ==
    /\ pc = "idle"
    /\ outcome = "raised"
    /\ child_exc # {}
    /\ Cardinality({i \in Idx : before_task[i] > 0 /\ task_after[i] = 1}) >= 2
    /\ \E i \in Idx : before_task[i] > 0 /\ i \notin child_exc
    /\ after_tasks = 1

\* C4 as stated: whenever no run() raised, TaskPool.run returns a list holding
\* each task's value exactly once.
C4_Original ==
    (pc = "idle" /\ outcome # "none" /\ child_exc = {}) =>
        (outcome = "returned" /\ IsPermutation(retval))

\* C4 amended: when no run() raised and no admission failed on a name that
\* still held a token (which cannot happen when the names are pairwise
\* distinct), TaskPool.run returns a list holding each task's value exactly
\* once, whatever a previous run left in the list.
C4_Results ==
    /\ (pc = "idle" /\ outcome # "none" /\ child_exc = {}
           /\ main_exc # "RuntimeError") =>
          (outcome = "returned" /\ IsPermutation(retval))
    /\ NamesDistinct => main_exc # "RuntimeError"

C4_Witness ==
    /\ pc = "idle"
    /\ outcome = "returned"
    /\ cancelled
    /\ Len(retval) = 3
    /\ retval[1] # 1

\* C5: tokens are acquired in input order, and a task is handed to the
\* nursery only after its own token, and so every earlier one, was acquired.
C5_AdmissionOrder ==
    /\ \A k \in 1..Len(admitted) : admitted[k] = k
    /\ \A j \in Idx : ts[j] # "new" => j <= Len(admitted)

C5_Witness ==
    /\ Len(admitted) = 3
    /\ Len(results) >= 2
    /\ results[1] = 2

C23_InFlightCompletes ==
    [][\A i \in Idx :
          (cancel_called /\ ts[i] = "running")
          => /\ pc' # "idle"
             /\ ts'[i] \in {"running", "returned", "raised"}
             /\ task_after'[i] = task_after[i]
             /\ pool_after'[i] = pool_after[i]
             /\ NameOf(i) \in borrowers']_vars

\* C23 (witness): the pool is cancelled, the task that failed has been
\* cleaned up, and another task is still inside run().
C23_Witness ==
    /\ cancel_called
    /\ \E i, j \in Idx : /\ ts[i] = "running"
                         /\ ts[j] = "done"
                         /\ j \in child_exc

\* C26: if every task's run() terminates, TaskPool.run terminates (it returns
\* or raises), and the for loop does not wait forever for a token.
C26_RunTerminates ==
    /\ (pc # "idle") ~> (pc = "idle" /\ outcome \in {"returned", "raised"})
    /\ (pc = "parked") ~> (pc # "parked")

\* C26 (witness): a run that had parked for a token and had a failure is over.
C26_Witness ==
    /\ pc = "idle"
    /\ outcome = "raised"
    /\ main_exc = "Cancelled"
    /\ child_exc # {}
    /\ \E i \in Idx : ts[i] = "new"

\* The tokens held are those of the tasks admitted and not yet finished, one
\* each, and none is held outside a run.
TokensHeld ==
    /\ borrowers = {NameOf(i) : i \in Holding}
    /\ Cardinality(borrowers) = Cardinality(Holding)
    /\ pc = "idle" => borrowers = {}

\* C27: limiter tokens are conserved: at every instant the tokens held are
\* those of the tasks admitted and not yet finished; a task that finishes
\* (run() returned, run() raised, or cancelled before run() started) holds
\* its token until then and releases it there, once; no token is held once
\* TaskPool.run has returned or raised.
C27_TokensConserved ==
    [][/\ TokensHeld
       /\ TokensHeld'
       /\ pc # "idle" =>
             \A i \in Idx :
                /\ (ts[i] \notin {"new", "done"} /\ ts'[i] = "done")
                      => (NameOf(i) \in borrowers /\ NameOf(i) \notin borrowers')
                /\ ts[i] = "done" => (ts'[i] = "done" /\ i \notin Holding')]_vars

\* C27 (witness): a run has raised after one task's run() raised and another
\* task was cancelled before its run() started; no token is held.
C27_Witness ==
    /\ pc = "idle"
    /\ outcome = "raised"
    /\ borrowers = {}
    /\ \E i, j \in Idx : /\ i \in child_exc
                         /\ j \notin child_exc
                         /\ ts[j] = "done"
                         /\ before_task[j] = 1
                         /\ \A k \in 1..Len(results) : results[k] # j

\* C28: the names of the tasks holding a token are pairwise distinct; a task
\* whose name is that of a task still holding its token is not admitted: the
\* for loop ends there with an error, the pool is cancelled and TaskPool.run
\* raises; task lists with pairwise distinct names never meet this error.
C28_NameKeyedTokens ==
    [][/\ \A i, j \in Holding : i # j => NameOf(i) # NameOf(j)
       /\ Len(admitted') > Len(admitted)
             => NameOf(admitted'[Len(admitted')]) \notin borrowers
       /\ (pc = "loop" /\ next <= Len(tasks) /\ NameOf(next) \in borrowers)
             => (pc' \in {"join", "aborted"} /\ admitted' = admitted)
       /\ (pc \in {"acquired", "granted"} /\ next + 1 <= Len(tasks)
              /\ NameOf(next + 1) \in borrowers /\ next' = next + 1)
             => (pc' \in {"join", "aborted"} /\ admitted' = admitted)
       /\ (main_exc # "RuntimeError" /\ main_exc' = "RuntimeError")
             => (cancel_called' /\ cancelled' /\ ts'[next'] = "new")
       /\ (main_exc = "RuntimeError" /\ pc # "idle")
             => /\ \A i \in Idx : ts[i] = "new" => ts'[i] = "new"
                /\ pc' = "idle" => outcome' = "raised"
       /\ NamesDistinct => main_exc # "RuntimeError"]_vars

\* C28 (witness): a run has raised because the second of two tasks of one
\* name was up for admission while the first still held its token; the
\* first has returned its value, the second never ran.
C28_Witness ==
    /\ pc = "idle"
    /\ outcome = "raised"
    /\ main_exc = "RuntimeError"
    /\ child_exc = {}
    /\ \E i, j \in Idx : /\ i < j
                         /\ NameOf(i) = NameOf(j)
                         /\ ts[i] = "done"
                         /\ ts[j] = "new"
                         /\ before_task[j] = 0

\* C29: the pool's cancelled flag is monotonic: false at construction, set
\* only by a step in which a task or the for loop fails or the failed run
\* ends, and never reset, so that a later run in which every task succeeds
\* has cancelled true throughout, when the after hooks run included.
C29_CancelledMonotonic ==
    [][/\ before_tasks = 0 => ~cancelled
       /\ cancelled => cancelled'
       /\ (~cancelled /\ cancelled')
             => \/ \E i \in Idx : ts[i] \in {"raised", "cancelling"} /\ ts'[i] = "done"
                \/ main_exc = "none" /\ main_exc' \in {"RuntimeError", "Cancelled"}
                \/ pc = "join" /\ pc' = "idle" /\ outcome' = "raised"
       /\ (pc = "join" /\ pc' = "idle") => at_after_tasks'.cancelled = cancelled']_vars

\* C29 (witness): a run in which no task and no admission failed has
\* returned the values of all its tasks, on a pool an earlier run cancelled.
C29_Witness ==
    /\ pc = "idle"
    /\ outcome = "returned"
    /\ child_exc = {}
    /\ main_exc = "none"
    /\ ~cancel_called
    /\ Len(retval) >= 1
    /\ IsPermutation(retval)
    /\ cancelled
    /\ at_after_tasks.cancelled

(***************************************************************************)
(* A wrapped call made while a run is in progress: the run() of a task     *)
(* calls TaskPool.run of another pool on its worker thread.  Of that inner *)
(* run only the wrapper of disable_output is followed: it clears the flag  *)
(* of the one CONSOLE, calls, and sets the flag when the call returns or   *)
(* raises.                                                                 *)
(***************************************************************************)
NestedRunBegin(i) ==
    /\ i \in Idx
    /\ ts[i] = "running"
    /\ print_output' = WrapperEnter
    /\ ts' = [ts EXCEPT ![i] = "nested"]
    /\ UNCHANGED <<jobs, cancelled, results, tasks, pc, next, borrowers,
                   cancel_called, main_exc, child_exc, before_tasks,
                   after_tasks, before_task, task_after, pool_after, admitted,
                   at_after_tasks, outcome, retval>>
    /\ UNCHANGED gitVars

NestedRunEnd(i, raised) ==
    /\ i \in Idx
    /\ ts[i] = "nested"
    /\ print_output' = WrapperExit(raised)
    /\ ts' = [ts EXCEPT ![i] = "running"]
    /\ UNCHANGED <<jobs, cancelled, results, tasks, pc, next, borrowers,
                   cancel_called, main_exc, child_exc, before_tasks,
                   after_tasks, before_task, task_after, pool_after, admitted,
                   at_after_tasks, outcome, retval>>
    /\ UNCHANGED gitVars

NestedNext ==
    \/ PoolNext
    \/ \E i \in 1..MaxTasks : NestedRunBegin(i)
    \/ \E i \in 1..MaxTasks, raised \in BOOLEAN : NestedRunEnd(i, raised)

\* C30: disable_output does not restore the previous value of
\* CONSOLE.print_output: it sets it to true on exit, whether the wrapped call
\* returned or raised and whatever the flag was before, so that when a wrapped
\* run ends inside another run the flag is true although the enclosing run is
\* still in progress.
C30_ExitEnablesOutput ==
    [][/\ (\E i \in Idx : ts[i] = "nested" /\ ts'[i] = "running")
             => (print_output' = TRUE /\ pc' # "idle")
       /\ (pc = "join" /\ pc' = "idle") => print_output' = TRUE
       /\ (pc = "idle" /\ pc' # "idle") => print_output' = FALSE
       /\ (\E i \in Idx : ts[i] = "running" /\ ts'[i] = "nested")
             => print_output' = FALSE]_vars

\* C30 (witness): output is enabled while a run is in progress: an inner run
\* has ended in it, one of its tasks is inside run() and another is inside
\* an inner run of its own.
C30_Witness ==
    /\ pc \notin {"idle", "join"}
    /\ print_output = TRUE
    /\ \E i, j \in Idx : ts[i] = "running" /\ ts[j] = "nested"

(***************************************************************************)
(* The TaskPool of pygoodle/task_pool.py, the class ProgressTaskPool       *)
(* extends.  It has no cancelled attribute, no except clause and no        *)
(* finally clause; the state is read as the fields of this pool.  Up to    *)
(* the for loop, inside the worker thread and on the path where run()      *)
(* returns it does what the pool of pygoodle/tasks does (RunBegin,         *)
(* TaskStart, ThreadStart, ThreadReturn, ThreadRaise, TaskDone).           *)
(***************************************************************************)
\* `await limit.acquire_on_behalf_of(task.name)` in the nursery block: an
\* error of the loop leaves the block, and the nursery cancels its scope.
LegacyTryAcquire(k) ==
    IF k > Len(tasks)
    THEN /\ pc' = "join"
         /\ UNCHANGED <<borrowers, cancel_called, main_exc, admitted>>
    ELSE IF cancel_called
    THEN /\ pc' = "aborted"
         /\ UNCHANGED <<borrowers, cancel_called, main_exc, admitted>>
    ELSE IF AlreadyBorrower(NameOf(k))
    THEN /\ cancel_called' = TRUE
         /\ main_exc' = "RuntimeError"
         /\ pc' = "join"
         /\ UNCHANGED <<borrowers, admitted>>
    ELSE IF HasToken(borrowers)
    THEN /\ borrowers' = borrowers \cup {NameOf(k)}
         /\ admitted' = Append(admitted, k)
         /\ pc' = "acquired"
         /\ UNCHANGED <<cancel_called, main_exc>>
    ELSE /\ pc' = "parked"
         /\ UNCHANGED <<borrowers, cancel_called, main_exc, admitted>>

LegacyLoopEnter ==
    /\ pc = "loop"
    /\ LegacyTryAcquire(next)
    /\ UNCHANGED <<print_output, jobs, cancelled, results, tasks, next, ts,
                   child_exc, before_tasks, after_tasks, before_task,
                   task_after, pool_after, at_after_tasks, outcome, retval>>
    /\ UNCHANGED gitVars

LegacyStartSoon ==
    /\ pc \in {"acquired", "granted"}
    /\ ts' = [ts EXCEPT ![next] = "started"]
    /\ next' = next + 1
    /\ LegacyTryAcquire(next + 1)
    /\ UNCHANGED <<print_output, jobs, cancelled, results, tasks, child_exc,
                   before_tasks, after_tasks, before_task, task_after,
                   pool_after, at_after_tasks, outcome, retval>>
    /\ UNCHANGED gitVars

\* Cancelled reaches the for loop and leaves the nursery block.
LegacyLoopCancelled ==
    /\ pc = "aborted"
    /\ main_exc' = "Cancelled"
    /\ pc' = "join"
    /\ UNCHANGED <<print_output, jobs, cancelled, results, tasks, next, ts,
                   borrowers, cancel_called, child_exc, before_tasks,
                   after_tasks, before_task, task_after, pool_after, admitted,
                   at_after_tasks, outcome, retval>>
    /\ UNCHANGED gitVars

\* run() raised, or run_sync raised Cancelled: the error leaves _run_task at
\* the await, the lines after it do not run; the nursery cancels its scope.
LegacyTaskFailed(i) ==
    /\ i \in Idx
    /\ ts[i] \in {"raised", "cancelling"}
    /\ cancel_called' = TRUE
    /\ pc' = IF pc = "parked" THEN "aborted" ELSE pc
    /\ child_exc' = IF ts[i] = "raised" THEN child_exc \cup {i} ELSE child_exc
    /\ ts' = [ts EXCEPT ![i] = "done"]
    /\ UNCHANGED <<print_output, jobs, cancelled, results, tasks, next,
                   main_exc, borrowers, before_tasks, after_tasks, before_task,
                   admitted, task_after, pool_after, at_after_tasks, outcome,
                   retval>>
    /\ UNCHANGED gitVars

\* The nursery block ends: it raises what a child or the loop raised and
\* _run is left there, or after_tasks runs and the results are returned.
LegacyRunEnd ==
    /\ pc = "join"
    /\ ChildrenDone
    /\ after_tasks' = IF NurseryRaises THEN after_tasks ELSE after_tasks + 1
    /\ outcome' = IF NurseryRaises THEN "raised" ELSE "returned"
    /\ retval' = IF NurseryRaises THEN <<>> ELSE results
    /\ print_output' = WrapperExit(NurseryRaises)
    /\ pc' = "idle"
    /\ UNCHANGED <<jobs, cancelled, results, tasks, next, ts, borrowers,
                   cancel_called, main_exc, child_exc, before_tasks,
                   before_task, task_after, pool_after, admitted,
                   at_after_tasks>>
    /\ UNCHANGED gitVars

LegacyNext ==
    \/ \E tl \in TaskLists : RunBegin(tl)
    \/ LegacyLoopEnter
    \/ LegacyStartSoon
    \/ LegacyLoopCancelled
    \/ \E i \in 1..MaxTasks : TaskStart(i)
    \/ \E i \in 1..MaxTasks : ThreadStart(i)
    \/ \E i \in 1..MaxTasks : ThreadReturn(i)
    \/ \E i \in 1..MaxTasks : ThreadRaise(i)
    \/ \E i \in 1..MaxTasks : TaskDone(i)
    \/ \E i \in 1..MaxTasks : LegacyTaskFailed(i)
    \/ LegacyRunEnd

\* C24: in the TaskPool of pygoodle/task_pool.py a failure of a task's run()
\* reaches the caller only after the cleanup hooks have run: after_task for
\* the failed task and after_tasks for the batch were invoked and the token
\* of the failed task was released.
C24_Original ==
    (pc = "idle" /\ outcome = "raised" /\ child_exc # {})
    => /\ after_tasks = 1
       /\ \A j \in child_exc : /\ task_after[j] = 1
                               /\ pool_after[j] = 1
                               /\ NameOf(j) \notin borrowers

(***************************************************************************)
(* The git repository and the entities of pygoodle/git.                    *)
(*                                                                         *)
(* Python's None is the string "None".  A call that can raise evaluates to *)
(* a record: exc is the exception class ("None" when it returned) and val  *)
(* is the value returned.  Strings that the code takes apart (ref names,   *)
(* output lines) are sequences of their "/"-separated components.          *)
(***************************************************************************)
RepoPath == "repo"

SortedBranchNames == <<"dev", "main">>

BranchNames == {SortedBranchNames[i] : i \in 1..Len(SortedBranchNames)}

SortedRemoteNames == <<"origin">>

RemoteNames == {SortedRemoteNames[i] : i \in 1..Len(SortedRemoteNames)}

Shas == {"s1", "s2"}

Urls == {"url1"}

\* The branch that is checked out; HEAD is the commit it is at.
CurrentBranch == "main"

\* What the server behind a remote url holds.
ServerBranches == {"dev", "main"}

ServerHead == "main"

Ok(v) == [exc |-> "None", val |-> v]

Raise(e) == [exc |-> e, val |-> "None"]

Failed(r) == r.exc # "None"

\* r, then F of what r returned: an exception of r passes through.
Then(r, F(_)) == IF Failed(r) THEN r ELSE F(r.val)

\* The first call of a sequence of calls that raised, or Ok of all values.
FirstFailure(rs) ==
    IF \E i \in 1..Len(rs) : Failed(rs[i])
    THEN rs[CHOOSE i \in 1..Len(rs) :
                /\ Failed(rs[i])
                /\ \A j \in 1..(i - 1) : ~Failed(rs[j])]
    ELSE Ok([i \in 1..Len(rs) |-> rs[i].val])

IsPrefix(p, t) == Len(p) <= Len(t) /\ SubSeq(t, 1, Len(p)) = p

remove_prefix(text, prefix) ==
    IF IsPrefix(prefix, text) THEN SubSeq(text, Len(prefix) + 1, Len(text))
    ELSE text

GitInit ==
    /\ local_branches = [b \in BranchNames |->
                            IF b = CurrentBranch THEN "s1" ELSE "None"]
    /\ remotes = [r \in RemoteNames |-> "None"]
    /\ remote_refs = {}
    /\ upstream = [b \in BranchNames |-> "None"]
    /\ remote_head = [r \in RemoteNames |-> "None"]
    /\ stray_head = [r \in RemoteNames |-> "None"]
    /\ last = [op |-> "None", arg |-> "None", exc |-> "None", val |-> "None",
               cmds |-> <<>>, queries |-> 0,
               pre_branches |-> local_branches, pre_remotes |-> remotes,
               pre_head |-> remote_head]

\* What an operation leaves in `last`: its name, argument and end, the
\* mutating git commands it ran, the network queries it made, and the
\* repository it found.
Outcome(op, arg, res, cmds, queries) ==
    [op |-> op, arg |-> arg, exc |-> res.exc, val |-> res.val,
     cmds |-> cmds, queries |-> queries,
     pre_branches |-> local_branches, pre_remotes |-> remotes,
     pre_head |-> remote_head]

(***************************************************************************)
(* git itself, as seen through cmd.get_stdout / cmd.run / cmd.run_silent.  *)
(***************************************************************************)
\* `git branch`: one line per local branch in name order, "*" on the current.
git_branch ==
    LET names == SelectSeq(SortedBranchNames,
                           LAMBDA b : local_branches[b] # "None")
    IN  [i \in 1..Len(names) |->
            IF names[i] = CurrentBranch THEN <<"*", names[i]>>
            ELSE <<names[i]>>]

\* `git remote -v`: a (fetch) and a (push) line per remote, in name order.
RECURSIVE git_remote_v(_)
git_remote_v(names) ==
    IF names = <<>> THEN <<>>
    ELSE LET n == Head(names)
         IN  (IF remotes[n] = "None" THEN <<>>
              ELSE << <<n, remotes[n], "(fetch)">>,
                      <<n, remotes[n], "(push)">> >>)
             \o git_remote_v(Tail(names))

\* `git symbolic-ref refs/remotes/<remote>/HEAD`: "None" when it fails.
git_symbolic_ref(remote) ==
    IF remote \in RemoteNames /\ remote_head[remote] # "None"
    THEN <<"refs", "remotes", remote, remote_head[remote]>>
    ELSE "None"

\* `git ls-remote --symref <url> HEAD`: "None" when the url cannot be read.
git_ls_remote_symref(url) ==
    IF url \in Urls THEN <<"refs", "heads", ServerHead>> ELSE "None"

\* `git rev-parse --symbolic-full-name <branch>@{upstream}`.
git_rev_parse_upstream(branch) ==
    IF upstream[branch] = "None" THEN "None"
    ELSE <<"refs", "remotes", upstream[branch][1], upstream[branch][2]>>

\* `git branch -r <remote>`: the remote branches, then the HEAD -> line.
git_branch_r(remote) ==
    LET names == SelectSeq(SortedBranchNames,
                           LAMBDA b : <<remote, b>> \in remote_refs)
    IN  [i \in 1..Len(names) |-> << <<remote, names[i]>> >>]
        \o (IF remote_head[remote] = "None" THEN <<>>
            ELSE << << <<remote, "HEAD">>, "->",
                       <<remote, remote_head[remote]>> >> >>)

(***************************************************************************)
(* ProcessOutput: the parsers of git's output.                             *)
(***************************************************************************)
ProcessOutput_local_branches(lines) ==
    [i \in 1..Len(lines) |->
        IF lines[i][1] = "*" THEN lines[i][2] ELSE lines[i][1]]

\* _remotes[name][...] = url assigns into the dict of a name; the loop never
\* creates that dict.
RECURSIVE ProcessOutput_remotes_loop(_, _)
ProcessOutput_remotes_loop(lines, acc) ==
    IF lines = <<>> THEN Ok(acc)
    ELSE LET name == Head(lines)[1]
             url == Head(lines)[2]
             kind == Head(lines)[3]
         IN  IF kind \notin {"(fetch)", "(push)"} THEN Raise("Exception")
             ELSE IF name \notin DOMAIN acc THEN Raise("KeyError")
             ELSE ProcessOutput_remotes_loop(Tail(lines),
                      [acc EXCEPT ![name] =
                          IF kind = "(fetch)"
                          THEN [@ EXCEPT !.fetch_url = url]
                          ELSE [@ EXCEPT !.push_url = url]])

ProcessOutput_remotes(lines) == ProcessOutput_remotes_loop(lines, <<>>)

\* The two arguments of Format.remove_prefix are passed text first, so the
\* text is 'refs/remotes' and the prefix is the output.
ProcessOutput_tracking_branches(output) ==
    IF IsPrefix(<<"refs", "heads">>, output)
    THEN Ok([branch |-> remove_prefix(<<"refs", "heads">>, output),
             remote |-> "None"])
    ELSE IF IsPrefix(<<"refs", "remotes">>, output)
    THEN LET components == remove_prefix(<<"refs", "remotes">>, output)
         IN  Ok([branch |-> components[2], remote |-> components[1]])
    ELSE Raise("Exception")

RECURSIVE ProcessOutput_remote_branches_loop(_, _, _, _)
ProcessOutput_remote_branches_loop(lines, remote, branches, default) ==
    IF lines = <<>> THEN Ok([branches |-> branches, default_branch |-> default])
    ELSE LET components == Head(lines)
         IN  IF Len(components) = 1
             THEN ProcessOutput_remote_branches_loop(Tail(lines), remote,
                      Append(branches, remove_prefix(components[1], <<remote>>)[1]),
                      default)
             ELSE IF Len(components) = 3 /\ components[2] = "->"
             THEN ProcessOutput_remote_branches_loop(Tail(lines), remote,
                      branches, remove_prefix(components[3], <<remote>>)[1])
             ELSE Raise("Exception")

ProcessOutput_remote_branches(lines, remote) ==
    ProcessOutput_remote_branches_loop(lines, remote, <<>>, "None")

(***************************************************************************)
(* GitOffline and GitOnline: one git command each.                         *)
(***************************************************************************)
get_local_branches_info == ProcessOutput_local_branches(git_branch)

get_remotes_info == ProcessOutput_remotes(git_remote_v(SortedRemoteNames))

get_remote_fetch_url(remote) ==
    Then(get_remotes_info,
         LAMBDA remotes_info :
             IF remote \notin DOMAIN remotes_info THEN Ok("None")
             ELSE Ok(remotes_info[remote].fetch_url))

\* The repository of the model is a directory with a non-empty .git.
is_repo_cloned == TRUE

offline_get_default_branch(remote) ==
    LET output == git_symbolic_ref(remote)
    IN  IF output = "None" THEN "None"
        ELSE remove_prefix(output, <<"refs", "remotes", remote>>)[1]

online_get_default_branch(url) ==
    LET output == git_ls_remote_symref(url)
    IN  IF output = "None" THEN "None"
        ELSE remove_prefix(output, <<"refs", "heads">>)[1]

\* save_default_branch that writes the file whether or not it exists.
save_default_branch_Overwrite(heads, remote, branch) ==
    [heads EXCEPT ![remote] = branch]

\* save_default_branch(git_dir, remote, branch) writes
\* <git_dir>/refs/remotes/<remote>/HEAD unless that file exists: the file
\* under .git when git_dir is the git directory, the file under the work
\* tree when it is the repository path.
save_default_branch(heads, remote, branch) ==
    IF heads[remote] = "None" THEN [heads EXCEPT ![remote] = branch]
    ELSE heads

\* `git branch <branch> HEAD` fails when the branch exists.
create_local_branch(branch) ==
    IF local_branches[branch] = "None"
    THEN [exc |-> "None",
          val |-> [local_branches EXCEPT
                       ![branch] = local_branches[CurrentBranch]]]
    ELSE [exc |-> "CalledProcessError", val |-> local_branches]

\* `git branch --delete <branch>` fails when the branch does not exist or
\* is checked out.
delete_local_branch(branch) ==
    IF local_branches[branch] # "None" /\ branch # CurrentBranch
    THEN [exc |-> "None", val |-> [local_branches EXCEPT ![branch] = "None"]]
    ELSE [exc |-> "CalledProcessError", val |-> local_branches]

\* `git remote add <name> <url>` fails when the remote exists.
create_remote(name, url) ==
    IF remotes[name] = "None"
    THEN [exc |-> "None", val |-> [remotes EXCEPT ![name] = url]]
    ELSE [exc |-> "CalledProcessError", val |-> remotes]

RECURSIVE get_tracking_branches_info_loop(_)
get_tracking_branches_info_loop(branches) ==
    IF branches = <<>> THEN Ok(<<>>)
    ELSE IF git_rev_parse_upstream(Head(branches)) = "None"
    THEN get_tracking_branches_info_loop(Tail(branches))
    ELSE Then(ProcessOutput_tracking_branches(
                  git_rev_parse_upstream(Head(branches))),
              LAMBDA up :
                  Then(get_tracking_branches_info_loop(Tail(branches)),
                       LAMBDA rest :
                           Ok(<<[local_branch |-> Head(branches),
                                 upstream_branch |-> up.branch,
                                 upstream_remote |-> up.remote,
                                 push_branch |-> up.branch,
                                 push_remote |-> up.remote]>> \o rest)))

get_tracking_branches_info ==
    get_tracking_branches_info_loop(get_local_branches_info)

get_remote_branches_info(remote) ==
    ProcessOutput_remote_branches(git_branch_r(remote), remote)

(***************************************************************************)
(* The entities: Ref, Branch, LocalBranch, RemoteBranch, TrackingBranch,   *)
(* Remote.  An object is the function from the attributes assigned so far  *)
(* to their values; reading an attribute that is not assigned yet raises   *)
(* AttributeError, a call that lacks a required argument raises TypeError. *)
(***************************************************************************)
\* text.startswith(prefix + '/'): the prefix components and one more at least.
StartsWithDir(text, prefix) == IsPrefix(prefix, text) /\ Len(text) > Len(prefix)

format_git_branch(branch) ==
    IF StartsWithDir(branch, <<"refs", "heads">>) THEN branch
    ELSE <<"refs", "heads">> \o branch

\* `git check-ref-format --normalize <ref>` exits 0 for a ref of at least
\* two non-empty components.
check_ref_format(ref) ==
    Len(ref) >= 2 /\ \A i \in 1..Len(ref) : ref[i] # ""

Branch_formatted_ref(self) ==
    IF "name" \in DOMAIN self THEN Ok(format_git_branch(<<self.name>>))
    ELSE Raise("AttributeError")

\* Ref.__init__ of a Branch: sets path, then reads self.formatted_ref and
\* drops what check_ref_format returns.
Ref_init(path) ==
    Then(Branch_formatted_ref(("path" :> path)),
         LAMBDA ref : LET valid == check_ref_format(ref)
                      IN  Ok(("path" :> path)))

\* Branch.__init__: Ref.__init__ first, self.name afterwards.
Branch_init(path, name) ==
    Then(Ref_init(path), LAMBDA self : Ok(self @@ ("name" :> name)))

LocalBranch_init(path, name) == Branch_init(path, name)

Remote_init(path, name) == ("name" :> name) @@ ("path" :> path)

\* RemoteBranch.__init__(path, name, remote, is_default=False); args holds
\* the arguments the caller passed.
RemoteBranch_init(args) ==
    IF ~({"path", "name", "remote"} \subseteq DOMAIN args)
    THEN Raise("TypeError")
    ELSE Then(Branch_init(args.path, args.name),
              LAMBDA self :
                  Ok(self
                     @@ ("remote" :> Remote_init(self.path, args.remote))
                     @@ ("is_default" :> IF "is_default" \in DOMAIN args
                                         THEN args.is_default ELSE FALSE)))

TrackingBranch_init(path, info) ==
    Then(Branch_init(path, info.local_branch), LAMBDA self :
    Then(LocalBranch_init(self.path, self.name), LAMBDA local :
    Then(RemoteBranch_init([path |-> self.path,
                            name |-> info.upstream_branch,
                            remote |-> info.upstream_remote]), LAMBDA up :
    Then(RemoteBranch_init([path |-> self.path,
                            name |-> info.push_branch,
                            remote |-> info.push_remote]), LAMBDA push :
        Ok(self @@ ("local_branch" :> local)
                @@ ("upstream_branch" :> up)
                @@ ("push_branch" :> push))))))

(***************************************************************************)
(* GitFactory.                                                             *)
(***************************************************************************)
\* The order of Python's string comparison on the names of the model.
NameRank(name) ==
    IF \E i \in 1..Len(SortedBranchNames) : SortedBranchNames[i] = name
    THEN CHOOSE i \in 1..Len(SortedBranchNames) : SortedBranchNames[i] = name
    ELSE Len(SortedBranchNames) + 1

SortedByName(objs) ==
    SortSeq(objs, LAMBDA a, b : NameRank(a.name) < NameRank(b.name))

RECURSIVE Concat(_)
Concat(seqs) == IF seqs = <<>> THEN <<>> ELSE Head(seqs) \o Concat(Tail(seqs))

get_remotes ==
    Then(get_remotes_info,
         LAMBDA remotes_info :
             Ok([i \in 1..Len(SelectSeq(SortedRemoteNames,
                                        LAMBDA n : n \in DOMAIN remotes_info))
                 |-> Remote_init(RepoPath,
                                 SelectSeq(SortedRemoteNames,
                                     LAMBDA n : n \in DOMAIN remotes_info)[i])]))

EachLocalBranch(names) ==
    [i \in 1..Len(names) |-> LocalBranch_init(RepoPath, names[i])]

get_local_branches ==
    Then(FirstFailure(EachLocalBranch(get_local_branches_info)),
         LAMBDA branches : Ok(SortedByName(branches)))

EachTrackingBranch(infos) ==
    [i \in 1..Len(infos) |-> TrackingBranch_init(RepoPath, infos[i])]

get_tracking_branches ==
    Then(get_tracking_branches_info, LAMBDA infos :
    Then(FirstFailure(EachTrackingBranch(infos)), LAMBDA branches :
        Ok(SortedByName(branches))))

\* The branches of the listing, then the default branch once more.
EachRemoteBranch(path, remote, info) ==
    [i \in 1..Len(info.branches) |->
        RemoteBranch_init([path |-> path, name |-> info.branches[i],
                           remote |-> remote])]
    \o (IF info.default_branch = "None" THEN <<>>
        ELSE <<RemoteBranch_init([path |-> path,
                                  name |-> info.default_branch,
                                  remote |-> remote,
                                  is_default |-> TRUE])>>)

\* get_remote_branches(path, remote); args holds the arguments passed.
get_remote_branches(args) ==
    IF ~({"path", "remote"} \subseteq DOMAIN args) THEN Raise("TypeError")
    ELSE Then(get_remote_branches_info(args.remote), LAMBDA info :
         Then(FirstFailure(EachRemoteBranch(args.path, args.remote, info)),
              LAMBDA branches : Ok(SortedByName(branches))))

\* Remote.branches: factory.get_remote_branches(self), one argument.
Remote_branches(self) == get_remote_branches([path |-> self])

EachRemote_branches(remote_objs) ==
    [i \in 1..Len(remote_objs) |-> Remote_branches(remote_objs[i])]

get_all_remote_branches ==
    Then(get_remotes, LAMBDA remote_objs :
    Then(FirstFailure(EachRemote_branches(remote_objs)), LAMBDA branches :
        Ok(SortedByName(Concat(branches)))))

AnyNamed(branches, name) ==
    \E i \in 1..Len(branches) : branches[i].name = name

has_local_branch(name) ==
    Then(get_local_branches, LAMBDA branches : Ok(AnyNamed(branches, name)))

has_tracking_branch(name) ==
    Then(get_tracking_branches, LAMBDA branches : Ok(AnyNamed(branches, name)))

LocalBranch_is_tracking_branch(self) == has_tracking_branch(self.name)

\* The name of the remote branch is looked up among the names of the
\* tracking branches, which are names of local branches.
RemoteBranch_is_tracking_branch(self) == has_tracking_branch(self.name)

LocalBranch_exists(self) == has_local_branch(self.name)

\* Remote.exists is a stub.
Remote_exists(self) == Raise("NotImplementedError")

\* The objects whose flag is false.
Keep(objs, flags) ==
    [k \in 1..Len(SelectSeq([i \in 1..Len(objs) |-> i],
                            LAMBDA i : ~flags[i]))
     |-> objs[SelectSeq([i \in 1..Len(objs) |-> i],
                        LAMBDA i : ~flags[i])[k]]]

EachLocal_is_tracking(local) ==
    [i \in 1..Len(local) |-> LocalBranch_is_tracking_branch(local[i])]

EachRemote_is_tracking(remote) ==
    [i \in 1..Len(remote) |-> RemoteBranch_is_tracking_branch(remote[i])]

\* AllBranches.__init__: drops the local and the remote branches whose
\* is_tracking_branch is true.
AllBranches_init(local, remote, tracking) ==
    Then(FirstFailure(EachLocal_is_tracking(local)), LAMBDA lt :
    Then(FirstFailure(EachRemote_is_tracking(remote)), LAMBDA rt :
        Ok([local_branches |-> Keep(local, lt),
            remote_branches |-> Keep(remote, rt),
            tracking_branches |-> tracking])))

get_all_branches ==
    Then(get_local_branches, LAMBDA local :
    Then(get_all_remote_branches, LAMBDA remote :
    Then(get_tracking_branches, LAMBDA tracking :
        AllBranches_init(local, remote, tracking))))

(***************************************************************************)
(* Operations on the repository.  Each leaves in `last` what it did.       *)
(***************************************************************************)
\* GitOffline.commit: HEAD and the current branch move to a new commit.
OfflineCommit ==
    /\ local_branches[CurrentBranch] = "s1"
    /\ local_branches' = [local_branches EXCEPT ![CurrentBranch] = "s2"]
    /\ last' = Outcome("GitOffline.commit", "None", Ok("None"),
                       <<"git commit">>, 0)
    /\ UNCHANGED <<remotes, remote_refs, upstream, remote_head, stray_head>>
    /\ UNCHANGED poolVars

OfflineCreateLocalBranch(branch) ==
    LET res == create_local_branch(branch)
    IN  /\ local_branches' = res.val
        /\ last' = Outcome("GitOffline.create_local_branch", branch,
                           [res EXCEPT !.val = "None"], <<"git branch">>, 0)
        /\ UNCHANGED <<remotes, remote_refs, upstream, remote_head,
                       stray_head>>
        /\ UNCHANGED poolVars

\* git drops the branch.<name> section of a branch it deletes.
OfflineDeleteLocalBranch(branch) ==
    LET res == delete_local_branch(branch)
    IN  /\ local_branches' = res.val
        /\ upstream' = IF Failed(res) THEN upstream
                       ELSE [upstream EXCEPT ![branch] = "None"]
        /\ last' = Outcome("GitOffline.delete_local_branch", branch,
                           [res EXCEPT !.val = "None"],
                           <<"git branch --delete">>, 0)
        /\ UNCHANGED <<remotes, remote_refs, remote_head, stray_head>>
        /\ UNCHANGED poolVars

OfflineCreateRemote(name, url) ==
    LET res == create_remote(name, url)
    IN  /\ remotes' = res.val
        /\ last' = Outcome("GitOffline.create_remote", name,
                           [res EXCEPT !.val = "None"], <<"git remote add">>, 0)
        /\ UNCHANGED <<local_branches, remote_refs, upstream, remote_head,
                       stray_head>>
        /\ UNCHANGED poolVars

\* GitOnline.fetch: `git fetch <remote>` brings the server's branches.
OnlineFetch(remote) ==
    /\ remotes[remote] # "None"
    /\ remote_refs' = remote_refs \cup {<<remote, b>> : b \in ServerBranches}
    /\ last' = Outcome("GitOnline.fetch", remote, Ok("None"), <<"git fetch">>, 1)
    /\ UNCHANGED <<local_branches, remotes, upstream, remote_head, stray_head>>
    /\ UNCHANGED poolVars

\* GitOffline.set_upstream_branch: `git branch --set-upstream-to=<r>/<u> <b>`.
OfflineSetUpstream(branch, upstream_branch, remote) ==
    LET ok == /\ local_branches[branch] # "None"
              /\ <<remote, upstream_branch>> \in remote_refs
    IN  /\ upstream' = IF ok
                       THEN [upstream EXCEPT
                                ![branch] = <<remote, upstream_branch>>]
                       ELSE upstream
        /\ last' = Outcome("GitOffline.set_upstream_branch", branch,
                           IF ok THEN Ok("None")
                           ELSE Raise("CalledProcessError"),
                           <<"git branch --set-upstream-to">>, 0)
        /\ UNCHANGED <<local_branches, remotes, remote_refs, remote_head,
                       stray_head>>
        /\ UNCHANGED poolVars

\* GitOffline.save_default_branch called with the git directory.
OfflineSaveDefaultBranch(remote, branch) ==
    /\ remote_head' = save_default_branch(remote_head, remote, branch)
    /\ last' = Outcome("GitOffline.save_default_branch",
                       [remote |-> remote, branch |-> branch], Ok("None"),
                       <<>>, 0)
    /\ UNCHANGED <<local_branches, remotes, remote_refs, upstream, stray_head>>
    /\ UNCHANGED poolVars

\* LocalBranch(path, name).create()
LocalBranchCreate(name) ==
    LET self == LocalBranch_init(RepoPath, name)
        exists == LocalBranch_exists(self.val)
        res == create_local_branch(name)
        Ends(r, cmds) == last' = Outcome("LocalBranch.create", name, r, cmds, 0)
    IN  /\ IF Failed(self) THEN Ends(self, <<>>) /\ UNCHANGED local_branches
           ELSE IF Failed(exists)
           THEN Ends(exists, <<>>) /\ UNCHANGED local_branches
           ELSE IF exists.val
           THEN Ends(Ok("None"), <<>>) /\ UNCHANGED local_branches
           ELSE /\ Ends([res EXCEPT !.val = "None"], <<"git branch">>)
                /\ local_branches' = res.val
        /\ UNCHANGED <<remotes, remote_refs, upstream, remote_head,
                       stray_head>>
        /\ UNCHANGED poolVars

\* LocalBranch(path, name).delete()
LocalBranchDelete(name) ==
    LET self == LocalBranch_init(RepoPath, name)
        exists == LocalBranch_exists(self.val)
        res == delete_local_branch(name)
        Ends(r, cmds) == last' = Outcome("LocalBranch.delete", name, r, cmds, 0)
    IN  /\ IF Failed(self)
           THEN Ends(self, <<>>) /\ UNCHANGED <<local_branches, upstream>>
           ELSE IF Failed(exists)
           THEN Ends(exists, <<>>) /\ UNCHANGED <<local_branches, upstream>>
           ELSE IF ~exists.val
           THEN Ends(Ok("None"), <<>>) /\ UNCHANGED <<local_branches, upstream>>
           ELSE /\ Ends([res EXCEPT !.val = "None"], <<"git branch --delete">>)
                /\ local_branches' = res.val
                /\ upstream' = IF Failed(res) THEN upstream
                               ELSE [upstream EXCEPT ![name] = "None"]
        /\ UNCHANGED <<remotes, remote_refs, remote_head, stray_head>>
        /\ UNCHANGED poolVars

\* Remote(path, name).create(url)
RemoteCreate(name, url) ==
    LET self == Remote_init(RepoPath, name)
        exists == Remote_exists(self)
        res == create_remote(name, url)
        Ends(r, cmds) == last' = Outcome("Remote.create", name, r, cmds, 0)
    IN  /\ IF Failed(exists) THEN Ends(exists, <<>>) /\ UNCHANGED remotes
           ELSE IF exists.val THEN Ends(Ok("None"), <<>>) /\ UNCHANGED remotes
           ELSE /\ Ends([res EXCEPT !.val = "None"], <<"git remote add">>)
                /\ remotes' = res.val
        /\ UNCHANGED <<local_branches, remote_refs, upstream, remote_head,
                       stray_head>>
        /\ UNCHANGED poolVars

\* Remote(path, name).default_branch
RemoteDefaultBranch(name) ==
    LET self == Remote_init(RepoPath, name)
        cached == IF is_repo_cloned THEN offline_get_default_branch(self.name)
                  ELSE "None"
        fetch_url == get_remote_fetch_url(self.name)
        default_branch == online_get_default_branch(fetch_url.val)
        Ends(r, queries) ==
            last' = Outcome("Remote.default_branch", name,
                            IF Failed(r) THEN r ELSE Ok(r.val.name),
                            <<>>, queries)
    IN  /\ IF cached # "None"
           THEN /\ Ends(RemoteBranch_init([name |-> cached, remote |-> self]), 0)
                /\ UNCHANGED stray_head
           ELSE IF Failed(fetch_url)
           THEN Ends(fetch_url, 0) /\ UNCHANGED stray_head
           ELSE /\ stray_head' = save_default_branch(stray_head, self.name,
                                                     fetch_url.val)
                /\ Ends(RemoteBranch_init([name |-> default_branch,
                                           remote |-> self]), 1)
        /\ UNCHANGED <<local_branches, remotes, remote_refs, upstream,
                       remote_head>>
        /\ UNCHANGED poolVars

\* GitFactory.get_all_branches(path)
GetAllBranches ==
    /\ last' = Outcome("GitFactory.get_all_branches", "None",
                       get_all_branches, <<>>, 0)
    /\ UNCHANGED gitRepo
    /\ UNCHANGED poolVars

\* GitFactory.get_remotes(path)
GetRemotes ==
    /\ last' = Outcome("GitFactory.get_remotes", "None", get_remotes, <<>>, 0)
    /\ UNCHANGED gitRepo
    /\ UNCHANGED poolVars

\* GitFactory.get_local_branches(path)
GetLocalBranches ==
    /\ last' = Outcome("GitFactory.get_local_branches", "None",
                       get_local_branches, <<>>, 0)
    /\ UNCHANGED gitRepo
    /\ UNCHANGED poolVars

\* GitFactory.get_remote_branches(path, remote)
GetRemoteBranches(remote) ==
    /\ last' = Outcome("GitFactory.get_remote_branches", remote,
                       get_remote_branches([path |-> RepoPath,
                                            remote |-> remote]), <<>>, 0)
    /\ UNCHANGED gitRepo
    /\ UNCHANGED poolVars

\* GitFactory.get_all_remote_branches(path)
GetAllRemoteBranches ==
    /\ last' = Outcome("GitFactory.get_all_remote_branches", "None",
                       get_all_remote_branches, <<>>, 0)
    /\ UNCHANGED gitRepo
    /\ UNCHANGED poolVars

\* GitFactory.get_tracking_branches(path)
GetTrackingBranches ==
    /\ last' = Outcome("GitFactory.get_tracking_branches", "None",
                       get_tracking_branches, <<>>, 0)
    /\ UNCHANGED gitRepo
    /\ UNCHANGED poolVars

GitNext ==
    \/ OfflineCommit
    \/ \E b \in BranchNames : OfflineCreateLocalBranch(b)
    \/ \E b \in BranchNames : OfflineDeleteLocalBranch(b)
    \/ \E r \in RemoteNames, u \in Urls : OfflineCreateRemote(r, u)
    \/ \E r \in RemoteNames : OnlineFetch(r)
    \/ \E b, u \in BranchNames, r \in RemoteNames : OfflineSetUpstream(b, u, r)
    \/ \E r \in RemoteNames, b \in BranchNames : OfflineSaveDefaultBranch(r, b)
    \/ \E b \in BranchNames : LocalBranchCreate(b)
    \/ \E b \in BranchNames : LocalBranchDelete(b)
    \/ \E r \in RemoteNames, u \in Urls : RemoteCreate(r, u)
    \/ \E r \in RemoteNames : RemoteDefaultBranch(r)
    \/ GetAllBranches
    \/ GetRemotes
    \/ GetLocalBranches
    \/ \E r \in RemoteNames : GetRemoteBranches(r)
    \/ GetAllRemoteBranches
    \/ GetTrackingBranches

(***************************************************************************)
(* Claims about the git entities, checked under GitSpec.                   *)
(***************************************************************************)
\* C7: in a cloned repository whose configured remote has no cached HEAD
\* file, evaluating Remote.default_branch makes exactly one network query,
\* writes the cache file .git/refs/remotes/<remote>/HEAD and returns the
\* branch it names; with the cache file present the evaluation makes no
\* network query and returns the cached branch, so a second evaluation
\* returns what the first returned.
C7_Original ==
    (last.op = "Remote.default_branch" /\ last.pre_remotes[last.arg] # "None")
    => /\ last.exc = "None"
       /\ last.pre_head[last.arg] = "None"
          => /\ last.queries = 1
             /\ remote_head[last.arg] = last.val
       /\ last.pre_head[last.arg] # "None"
          => /\ last.queries = 0
             /\ last.val = last.pre_head[last.arg]

\* C8: LocalBranch.create() on a branch that exists and LocalBranch.delete()
\* on a branch that does not exist do not raise, run no git command and
\* leave the local branches and their shas as they were.
C8_Original ==
    (\/ /\ last.op = "LocalBranch.create"
        /\ last.pre_branches[last.arg] # "None"
     \/ /\ last.op = "LocalBranch.delete"
        /\ last.pre_branches[last.arg] = "None")
    => /\ last.exc = "None"
       /\ last.cmds = <<>>
       /\ local_branches = last.pre_branches

\* C9: Remote.create(url) on a remote name that exists does not raise, does
\* not run `git remote add` and leaves the remotes as they were; on a name
\* that does not exist it adds the remote.
C9_Original ==
    last.op = "Remote.create"
    => IF last.pre_remotes[last.arg] # "None"
       THEN /\ last.exc = "None"
            /\ last.cmds = <<>>
            /\ remotes = last.pre_remotes
       ELSE /\ last.exc = "None"
            /\ remotes[last.arg] # "None"

\* C10: GitFactory.get_all_branches returns a snapshot in which every local
\* branch that has an upstream is in tracking_branches and not in
\* local_branches, and the upstream itself is not in remote_branches.
C10_Original ==
    last.op = "GitFactory.get_all_branches"
    => /\ last.exc = "None"
       /\ \A b \in BranchNames :
             (local_branches[b] # "None" /\ upstream[b] # "None")
             => LET all == last.val
                    In(objs, name) ==
                        \E i \in 1..Len(objs) : objs[i].name = name
                IN  /\ In(all.tracking_branches, b)
                    /\ ~In(all.local_branches, b)
                    /\ ~\E i \in 1..Len(all.remote_branches) :
                           /\ all.remote_branches[i].name = upstream[b][2]
                           /\ all.remote_branches[i].remote.name
                                  = upstream[b][1]

\* The collection queries of GitFactory.
CollectionQueries ==
    {"GitFactory.get_remotes", "GitFactory.get_local_branches",
     "GitFactory.get_remote_branches", "GitFactory.get_all_remote_branches",
     "GitFactory.get_tracking_branches"}

\* Two entities are equal: same path, same name, same remote if they have one.
SameEntity(a, b) ==
    /\ a.path = b.path
    /\ a.name = b.name
    /\ ("remote" \in DOMAIN a /\ "remote" \in DOMAIN b)
       => a.remote.name = b.remote.name

\* C11: every collection query of GitFactory returns its collection sorted
\* by name and without two equal entities, also when the listing of a
\* remote has a default branch (HEAD ->) line.
C11_Original ==
    last.op \in CollectionQueries
    => /\ last.exc = "None"
       /\ \A i, j \in 1..Len(last.val) :
             i < j => /\ NameRank(last.val[i].name) <= NameRank(last.val[j].name)
                      /\ ~SameEntity(last.val[i], last.val[j])

Idle == last.op = "None"

(***************************************************************************)
(* Submodule metadata.  A config file (.gitmodules or .git/config) is the  *)
(* sequence of its submodule entries, each a path (its "."-separated       *)
(* components), a key and a value.  A word of git's output is the sequence *)
(* of its "."-separated components; a line is the sequence of its words.   *)
(***************************************************************************)
SubmodulePaths == {<<"sub">>, <<"lib", "x">>}

\* The entries one file can hold for one path, in the order git prints them.
GitmodulesEntries(p) ==
    {<<>>,
     <<[path |-> p, key |-> "path", value |-> "dir"],
       [path |-> p, key |-> "url", value |-> "U"]>>,
     <<[path |-> p, key |-> "path", value |-> "dir"],
       [path |-> p, key |-> "url", value |-> "U"],
       [path |-> p, key |-> "branch", value |-> "B"]>>}

ConfigEntries(p) ==
    {<<>>,
     <<[path |-> p, key |-> "url", value |-> "U"]>>,
     <<[path |-> p, key |-> "url", value |-> "U2"]>>,
     <<[path |-> p, key |-> "active", value |-> "true"],
       [path |-> p, key |-> "url", value |-> "U"]>>}

GitmodulesFiles ==
    {a \o b : a \in GitmodulesEntries(<<"sub">>),
              b \in GitmodulesEntries(<<"lib", "x">>)}

ConfigFiles ==
    {a \o b : a \in ConfigEntries(<<"sub">>),
              b \in ConfigEntries(<<"lib", "x">>)}

\* `git config --file <file> --get-regexp submodule`: a line
\* "submodule.<path>.<key> <value>" per entry.
git_config_get_regexp(file) ==
    [i \in 1..Len(file) |->
        << <<"submodule">> \o file[i].path \o <<file[i].key>>,
           <<file[i].value>> >>]

\* output.split(): every word of every line, one list item each.
get_config_info(file) ==
    LET words == Concat(git_config_get_regexp(file))
    IN  [i \in 1..Len(words) |-> <<words[i]>>]

\* ProcessOutput.submodules: each item is split into words, the first word
\* into its "."-separated components; components[1] is the path and
\* components[2] the key.
RECURSIVE ProcessOutput_submodules_loop(_, _)
ProcessOutput_submodules_loop(output, acc) ==
    IF output = <<>> THEN Ok(acc)
    ELSE IF Len(Head(output)) < 2 \/ Len(Head(output)[1]) < 3
    THEN Raise("IndexError")
    ELSE ProcessOutput_submodules_loop(
             Tail(output),
             IF <<Head(output)[1][2]>> \in DOMAIN acc
             THEN [acc EXCEPT ![<<Head(output)[1][2]>>] =
                      (Head(output)[1][3] :> Head(output)[2]) @@ @]
             ELSE (<<Head(output)[1][2]>> :>
                      (Head(output)[1][3] :> Head(output)[2])) @@ acc)

ProcessOutput_submodules(output) == ProcessOutput_submodules_loop(output, <<>>)

\* The loop of get_submodules_info: submodules[name][key] = value for every
\* name and key of .git/config; a name .gitmodules does not have is a
\* KeyError.
MergeSubmodules(submodules, git_config_submodules) ==
    IF \E name \in DOMAIN git_config_submodules : name \notin DOMAIN submodules
    THEN Raise("KeyError")
    ELSE Ok([name \in DOMAIN submodules |->
                IF name \in DOMAIN git_config_submodules
                THEN git_config_submodules[name] @@ submodules[name]
                ELSE submodules[name]])

get_submodules_info(gitmodules, config) ==
    Then(ProcessOutput_submodules(get_config_info(gitmodules)),
         LAMBDA submodules :
    Then(ProcessOutput_submodules(get_config_info(config)),
         LAMBDA git_config_submodules :
             MergeSubmodules(submodules, git_config_submodules)))

\* GitOffline.get_submodules_info(path) in a repository with these files.
GetSubmodulesInfo(gitmodules, config) ==
    /\ Idle
    /\ last' = Outcome("GitOffline.get_submodules_info",
                       [gitmodules |-> gitmodules, config |-> config],
                       get_submodules_info(gitmodules, config), <<>>, 0)
    /\ UNCHANGED gitRepo
    /\ UNCHANGED poolVars

\* The value a file gives a key of a path, "None" if it has none.
ValueIn(file, p, key) ==
    IF \E i \in 1..Len(file) : file[i].path = p /\ file[i].key = key
    THEN file[CHOOSE i \in 1..Len(file) :
                  file[i].path = p /\ file[i].key = key].value
    ELSE "None"

SubmoduleKeys == {"path", "url", "branch", "active"}

\* C13: get_submodules_info returns one record per submodule path holding
\* every key of either file, with the value of .git/config where both files
\* have the key; .gitmodules {url: U, branch: B} and .git/config
\* {url: U, active: true} give url = U, branch = B, active = true.
C13_Original ==
    last.op = "GitOffline.get_submodules_info"
    => /\ last.exc = "None"
       /\ \A p \in SubmodulePaths, key \in SubmoduleKeys :
             LET declared == ValueIn(last.arg.gitmodules, p, key)
                 local == ValueIn(last.arg.config, p, key)
                 merged == IF local # "None" THEN local ELSE declared
             IN  IF merged = "None"
                 THEN p \notin DOMAIN last.val \/ key \notin DOMAIN last.val[p]
                 ELSE /\ p \in DOMAIN last.val
                      /\ key \in DOMAIN last.val[p]
                      /\ last.val[p][key] = merged

\* What GitOffline.get_submodule_git_dir finds: "None" when <path>/.git is
\* not a file, else the git directory it names, empty or with contents.
GitDirs == {"None", "empty", "contents"}

get_submodules_info_from_gitmodules(gitmodules) ==
    ProcessOutput_submodules(get_config_info(gitmodules))

\* Reads '.gitmodules' as well; .git/config is not consulted.
get_submodules_info_from_git_config(gitmodules, config) ==
    ProcessOutput_submodules(get_config_info(gitmodules))

repo_has_submodule(gitmodules, submodule_path) ==
    Then(get_submodules_info_from_gitmodules(gitmodules),
         LAMBDA submodules : Ok(submodule_path \in DOMAIN submodules))

is_submodule_initialized(gitmodules, config, submodule_path) ==
    Then(repo_has_submodule(gitmodules, submodule_path),
         LAMBDA has : IF ~has THEN Ok(FALSE)
                      ELSE Then(get_submodules_info_from_git_config(gitmodules, config),
                                LAMBDA submodules : Ok(submodule_path \in DOMAIN submodules)))

\* git_dir.is_dir() and fs.has_contents(git_dir); git_dir may be None.
is_submodule_cloned(gitmodules, config, submodule_path, git_dir) ==
    Then(is_submodule_initialized(gitmodules, config, submodule_path),
         LAMBDA initialized : IF ~initialized THEN Ok(FALSE)
                              ELSE IF git_dir = "None" THEN Raise("AttributeError")
                              ELSE Ok(git_dir = "contents"))

IsSubmoduleInitialized(gitmodules, config, submodule_path) ==
    /\ Idle
    /\ last' = Outcome("GitOffline.is_submodule_initialized",
                       [gitmodules |-> gitmodules, config |-> config,
                        submodule_path |-> submodule_path],
                       is_submodule_initialized(gitmodules, config, submodule_path),
                       <<>>, 0)
    /\ UNCHANGED gitRepo
    /\ UNCHANGED poolVars

IsSubmoduleCloned(gitmodules, config, submodule_path, git_dir) ==
    /\ Idle
    /\ last' = Outcome("GitOffline.is_submodule_cloned",
                       [gitmodules |-> gitmodules, config |-> config,
                        submodule_path |-> submodule_path, git_dir |-> git_dir],
                       is_submodule_cloned(gitmodules, config, submodule_path, git_dir),
                       <<>>, 0)
    /\ UNCHANGED gitRepo
    /\ UNCHANGED poolVars

\* The file has an entry for the submodule path.
HasEntry(file, p) == \E i \in 1..Len(file) : file[i].path = p

\* C14: is_submodule_initialized is true exactly when the submodule is
\* declared in .gitmodules and registered in .git/config (declared but not
\* registered gives false); is_submodule_cloned is true exactly when, in
\* addition, the git directory is not empty.
C14_Original ==
    /\ last.op = "GitOffline.is_submodule_initialized"
       => /\ last.exc = "None"
          /\ last.val = (/\ HasEntry(last.arg.gitmodules, last.arg.submodule_path)
                         /\ HasEntry(last.arg.config, last.arg.submodule_path))
    /\ last.op = "GitOffline.is_submodule_cloned"
       => /\ last.exc = "None"
          /\ last.val = (/\ HasEntry(last.arg.gitmodules, last.arg.submodule_path)
                         /\ HasEntry(last.arg.config, last.arg.submodule_path)
                         /\ last.arg.git_dir = "contents")

(***************************************************************************)
(* Repo.is_valid.  A worktree is its condition and its submodules (at most *)
(* one here), each with its registration in the superproject's             *)
(* .git/config, its git directory and its own worktree.                    *)
(***************************************************************************)
MaxNesting == 2

Conditions == {"clean", "dirty", "rebase", "untracked"}

\* The name of the submodule declared at a nesting level.
SubmoduleNameAt(d) == IF d % 2 = 0 THEN "sub" ELSE "dep"

RECURSIVE Worktrees(_)
Worktrees(d) ==
    {[condition |-> c, submodules |-> <<>>] : c \in Conditions}
    \cup (IF d = 0 THEN {}
          ELSE {[condition |-> c,
                 submodules |-> <<[name |-> SubmoduleNameAt(d),
                                   registered |-> r,
                                   git_dir |-> g,
                                   worktree |-> w]>>] :
                   c \in Conditions, r \in BOOLEAN, g \in GitDirs,
                   w \in Worktrees(d - 1)})

\* The .gitmodules and .git/config of a worktree.
GitmodulesOf(w) ==
    Concat([i \in 1..Len(w.submodules) |->
        <<[path |-> <<w.submodules[i].name>>, key |-> "path",
           value |-> w.submodules[i].name],
          [path |-> <<w.submodules[i].name>>, key |-> "url", value |-> "U"]>>])

ConfigOf(w) ==
    Concat([i \in 1..Len(w.submodules) |->
        IF w.submodules[i].registered
        THEN <<[path |-> <<w.submodules[i].name>>, key |-> "active",
                value |-> "true"],
               [path |-> <<w.submodules[i].name>>, key |-> "url", value |-> "U"]>>
        ELSE <<>>])

\* Submodule.__init__ for one record of get_submodules_info.
Submodule_init(w, submodule_info) ==
    IF ~({"url", "path"} \subseteq DOMAIN submodule_info)
    THEN Raise("KeyError")
    ELSE LET s == CHOOSE s \in {w.submodules[i] : i \in 1..Len(w.submodules)} :
                      s.name = submodule_info["path"]
         IN  Ok([submodule_path |-> <<submodule_info["path"]>>,
                 url |-> submodule_info["url"],
                 active |-> ("active" \in DOMAIN submodule_info
                             /\ submodule_info["active"] = "true"),
                 submodule_git_dir |-> s.git_dir,
                 worktree |-> s.worktree])

EachSubmodule(w, submodules_info) ==
    LET keys == SelectSeq(<< <<"dep">>, <<"sub">> >>,
                          LAMBDA k : k \in DOMAIN submodules_info)
    IN  [i \in 1..Len(keys) |-> Submodule_init(w, submodules_info[keys[i]])]

\* GitFactory.get_submodules(path) in worktree w.
get_submodules(w) ==
    Then(get_submodules_info(GitmodulesOf(w), ConfigOf(w)),
         LAMBDA submodules_info : FirstFailure(EachSubmodule(w, submodules_info)))

\* Submodule.exists: is_submodule_cloned(self.path, self.submodule_path),
\* where self.path is the submodule's own directory.
Submodule_exists(self) ==
    is_submodule_cloned(GitmodulesOf(self.worktree), <<>>,
                        self.submodule_path, self.submodule_git_dir)

AllTrue(vals) == \A i \in 1..Len(vals) : vals[i]

\* Repo.is_valid(allow_missing); exists is the outcome of self.exists.
RECURSIVE Repo_is_valid(_, _, _)
Repo_is_valid(w, exists, allow_missing) ==
    Then(exists, LAMBDA e :
        IF ~e THEN Ok(allow_missing)
        ELSE IF w.condition # "clean" THEN Ok(FALSE)
        ELSE Then(get_submodules(w), LAMBDA submodules :
            IF submodules = <<>> THEN Ok(TRUE)
            ELSE Then(FirstFailure([i \in 1..Len(submodules) |->
                          Repo_is_valid(submodules[i].worktree,
                                        Submodule_exists(submodules[i]),
                                        allow_missing)]),
                      LAMBDA vals : Ok(AllTrue(vals)))))

\* Repo(path).is_valid(allow_missing) for a repository that is on disk.
RepoIsValid(w, allow_missing) ==
    /\ Idle
    /\ last' = Outcome("Repo.is_valid",
                       [worktree |-> w, allow_missing |-> allow_missing],
                       Repo_is_valid(w, Ok(is_repo_cloned), allow_missing),
                       <<>>, 0)
    /\ UNCHANGED gitRepo
    /\ UNCHANGED poolVars

\* The recursive predicate: clean, and every submodule valid.
RECURSIVE RecursivelyValid(_)
RecursivelyValid(w) ==
    /\ w.condition = "clean"
    /\ \A i \in 1..Len(w.submodules) : RecursivelyValid(w.submodules[i].worktree)

\* Every submodule, at every depth, is registered and has a git directory
\* with contents.
RECURSIVE AllCloned(_)
AllCloned(w) ==
    \A i \in 1..Len(w.submodules) :
        /\ w.submodules[i].registered
        /\ w.submodules[i].git_dir = "contents"
        /\ AllCloned(w.submodules[i].worktree)

\* C12: for a repository on disk (its submodules cloned), is_valid returns
\* true exactly when the repository is not dirty, has no untracked files, is
\* not mid-rebase and every submodule is valid by the same predicate; one
\* such condition at any nesting depth makes it false.
C12_Original ==
    (last.op = "Repo.is_valid" /\ AllCloned(last.arg.worktree))
    => /\ last.exc = "None"
       /\ last.val = RecursivelyValid(last.arg.worktree)

(***************************************************************************)
(* Constructing refs: Branch(path, name), Tag(path, name) and              *)
(* Commit(path, sha).                                                      *)
(***************************************************************************)
\* Names and shas given to the constructors; "" is not a ref component.
RefNames == {"main", "dev", "v1", ""}

format_git_tag(tag) ==
    IF StartsWithDir(tag, <<"refs", "tags">>) THEN tag
    ELSE <<"refs", "tags">> \o tag

Tag_formatted_ref(self) ==
    IF "name" \in DOMAIN self THEN Ok(format_git_tag(<<self.name>>))
    ELSE Raise("AttributeError")

\* Commit.formatted_ref is self.sha, which is self._sha.
Commit_formatted_ref(self) ==
    IF "_sha" \in DOMAIN self THEN Ok(<<self["_sha"]>>)
    ELSE Raise("AttributeError")

\* Ref.__init__ of a Tag and of a Commit: sets path, reads
\* self.formatted_ref, drops what check_ref_format returns.
Tag_Ref_init(path) ==
    Then(Tag_formatted_ref(("path" :> path)),
         LAMBDA ref : LET valid == check_ref_format(ref)
                      IN  Ok(("path" :> path)))

Commit_Ref_init(path) ==
    Then(Commit_formatted_ref(("path" :> path)),
         LAMBDA ref : LET valid == check_ref_format(ref)
                      IN  Ok(("path" :> path)))

\* Tag.__init__ and Commit.__init__: Ref.__init__ first, the name or sha
\* afterwards.
Tag_init(path, name) ==
    Then(Tag_Ref_init(path), LAMBDA self : Ok(self @@ ("name" :> name)))

Commit_init(path, sha) ==
    Then(Commit_Ref_init(path), LAMBDA self : Ok(self @@ ("_sha" :> sha)))

ConstructBranch(name) ==
    /\ Idle
    /\ last' = Outcome("Branch", name, Branch_init(RepoPath, name), <<>>, 0)
    /\ UNCHANGED gitRepo
    /\ UNCHANGED poolVars

ConstructTag(name) ==
    /\ Idle
    /\ last' = Outcome("Tag", name, Tag_init(RepoPath, name), <<>>, 0)
    /\ UNCHANGED gitRepo
    /\ UNCHANGED poolVars

ConstructCommit(sha) ==
    /\ Idle
    /\ last' = Outcome("Commit", sha, Commit_init(RepoPath, sha), <<>>, 0)
    /\ UNCHANGED gitRepo
    /\ UNCHANGED poolVars

RefConstructors == {"Branch", "Tag", "Commit"}

\* The formatted ref of the ref a constructor was asked for.
FormattedRefOf(op, arg) ==
    IF op = "Branch" THEN format_git_branch(<<arg>>)
    ELSE IF op = "Tag" THEN format_git_tag(<<arg>>)
    ELSE <<arg>>

\* C15: constructing a Branch, Tag or Commit validates the formatted ref of
\* that very ref, its name or sha already applied: the construction succeeds
\* exactly when that ref passes `git check-ref-format`.
C15_Original ==
    last.op \in RefConstructors
    => (last.exc = "None" <=> check_ref_format(FormattedRefOf(last.op, last.arg)))

\* Repository paths of the refs that are compared.
RepoPaths == {RepoPath, "other"}

\* Ref.__eq__: the paths are equal.
Ref_eq(self, other) == self.path = other.path

\* Commit.__eq__: super().__eq__(other) and self.path == other.path.
Commit_eq(self, other) == Ref_eq(self, other) /\ self.path = other.path

\* Commit(path1, sha1) == Commit(path2, sha2).
CommitEq(path1, sha1, path2, sha2) ==
    /\ Idle
    /\ last' = Outcome("Commit.__eq__",
                       [path1 |-> path1, sha1 |-> sha1,
                        path2 |-> path2, sha2 |-> sha2],
                       Then(Commit_init(path1, sha1), LAMBDA self :
                       Then(Commit_init(path2, sha2), LAMBDA other :
                           Ok(Commit_eq(self, other)))),
                       <<>>, 0)
    /\ UNCHANGED gitRepo
    /\ UNCHANGED poolVars

\* C16: two Commits compare equal if and only if they have the same sha in
\* the same repository path; two Commits of one repository with different
\* shas are not equal.
C16_Original ==
    last.op = "Commit.__eq__"
    => /\ last.exc = "None"
       /\ last.val = (/\ last.arg.sha1 = last.arg.sha2
                      /\ last.arg.path1 = last.arg.path2)

(***************************************************************************)
(* Read operations.  A server is what `git ls-remote` finds behind a       *)
(* remote: whether it can be read at all, the branch its HEAD names and    *)
(* its tags.  The outcome of cmd.get_stdout is the record of whether it is *)
(* None (the command failed) and the lines of the output otherwise; a line *)
(* is the sequence of its words, a word the sequence of its "/"-separated  *)
(* components.                                                             *)
(***************************************************************************)
TagNames == {"v1", "v2"}

Servers ==
    [reachable : BOOLEAN, head : {"None", "main"}, tags : SUBSET {"v1"}]

NoStdout == [none |-> TRUE, lines |-> <<>>]

Stdout(lines) == [none |-> FALSE, lines |-> lines]

\* `git ls-remote --symref <url> HEAD`: without the "ref:" line when the
\* HEAD of the server names no branch.
ls_remote_symref(server) ==
    IF ~server.reachable THEN NoStdout
    ELSE IF server.head = "None" THEN Stdout(<< << <<"s1">>, <<"HEAD">> >> >>)
    ELSE Stdout(<< << <<"ref:">>, <<"refs", "heads", server.head>>, <<"HEAD">> >>,
                   << <<"s1">>, <<"HEAD">> >> >>)

\* `git ls-remote --heads <remote>`
ls_remote_heads(server) ==
    IF ~server.reachable THEN NoStdout
    ELSE IF server.head = "None" THEN Stdout(<<>>)
    ELSE Stdout(<< << <<"s1">>, <<"refs", "heads", server.head>> >> >>)

\* `git ls-remote --tags <remote>`
ls_remote_tags(server) ==
    IF ~server.reachable THEN NoStdout
    ELSE Stdout([i \in 1..Len(SelectSeq(<<"v1", "v2">>,
                                        LAMBDA t : t \in server.tags)) |->
                    << <<"s1">>,
                       <<"refs", "tags",
                         SelectSeq(<<"v1", "v2">>,
                                   LAMBDA t : t \in server.tags)[i]>> >>])

\* GitOnline.get_default_branch: the chunks that start with 'refs/heads/',
\* prefix removed, and then branch[0].
GitOnline_get_default_branch(output) ==
    IF output.none THEN Ok("None")
    ELSE LET branch == SelectSeq(Concat(output.lines),
                                 LAMBDA chunk : /\ IsPrefix(<<"refs", "heads">>, chunk)
                                                /\ Len(chunk) > 2)
         IN  IF branch = <<>> THEN Raise("IndexError")
             ELSE Ok(remove_prefix(branch[1], <<"refs", "heads">>)[1])

\* ProcessOutput.shas(output, prefix): output.strip() first, then one
\* name -> sha item per line.
RECURSIVE ProcessOutput_shas_loop(_, _, _)
ProcessOutput_shas_loop(lines, prefix, items) ==
    IF lines = <<>> THEN Ok(items)
    ELSE IF Len(Head(lines)) < 2 THEN Raise("IndexError")
    ELSE ProcessOutput_shas_loop(
             Tail(lines), prefix,
             (remove_prefix(Head(lines)[2], prefix)[1] :> Head(lines)[1][1])
             @@ items)

ProcessOutput_shas(output, prefix) ==
    IF output.none THEN Raise("AttributeError")
    ELSE ProcessOutput_shas_loop(output.lines, prefix, <<>>)

get_remote_tags_info(output) ==
    IF output.none THEN Ok(<<>>)
    ELSE ProcessOutput_shas(output, <<"refs", "tags">>)

\* tag = [t for t in tags if t == name]; tag[1] if tag else None
get_remote_tag_sha(output, name) ==
    Then(get_remote_tags_info(output), LAMBDA tags :
        IF name \in DOMAIN tags THEN Raise("IndexError") ELSE Ok("None"))

online_get_remote_branches_info(output) ==
    ProcessOutput_shas(output, <<"refs", "heads">>)

has_remote_branch(name, remote) ==
    Then(get_remote_branches([path |-> RepoPath, remote |-> remote]),
         LAMBDA branches : Ok(AnyNamed(branches, name)))

OnlineGetDefaultBranch(server) ==
    /\ Idle
    /\ last' = Outcome("GitOnline.get_default_branch", [server |-> server],
                       GitOnline_get_default_branch(ls_remote_symref(server)),
                       <<>>, 1)
    /\ UNCHANGED gitRepo
    /\ UNCHANGED poolVars

OnlineGetRemoteTagSha(server, name) ==
    /\ Idle
    /\ last' = Outcome("GitOnline.get_remote_tag_sha",
                       [server |-> server, name |-> name],
                       get_remote_tag_sha(ls_remote_tags(server), name),
                       <<>>, 1)
    /\ UNCHANGED gitRepo
    /\ UNCHANGED poolVars

OnlineGetRemoteBranchesInfo(server) ==
    /\ Idle
    /\ last' = Outcome("GitOnline.get_remote_branches_info", [server |-> server],
                       online_get_remote_branches_info(ls_remote_heads(server)),
                       <<>>, 1)
    /\ UNCHANGED gitRepo
    /\ UNCHANGED poolVars

HasLocalBranch(name) ==
    /\ Idle
    /\ last' = Outcome("GitFactory.has_local_branch", [name |-> name],
                       has_local_branch(name), <<>>, 0)
    /\ UNCHANGED gitRepo
    /\ UNCHANGED poolVars

HasTrackingBranch(name) ==
    /\ Idle
    /\ last' = Outcome("GitFactory.has_tracking_branch", [name |-> name],
                       has_tracking_branch(name), <<>>, 0)
    /\ UNCHANGED gitRepo
    /\ UNCHANGED poolVars

HasRemoteBranch(name, remote) ==
    /\ Idle
    /\ last' = Outcome("GitFactory.has_remote_branch",
                       [name |-> name, remote |-> remote],
                       has_remote_branch(name, remote), <<>>, 0)
    /\ UNCHANGED gitRepo
    /\ UNCHANGED poolVars

\* The read operation found nothing: what it looks for is absent, or the
\* git query gave no output.
FoundNothing ==
    \/ /\ last.op = "GitFactory.has_local_branch"
       /\ last.pre_branches[last.arg.name] = "None"
    \/ /\ last.op = "GitFactory.has_tracking_branch"
       /\ upstream[last.arg.name] = "None"
    \/ /\ last.op = "GitFactory.has_remote_branch"
       /\ <<last.arg.remote, last.arg.name>> \notin remote_refs
    \/ /\ last.op \in {"GitOnline.get_default_branch",
                       "GitOnline.get_remote_branches_info"}
       /\ (~last.arg.server.reachable \/ last.arg.server.head = "None")
    \/ /\ last.op = "GitOnline.get_remote_tag_sha"
       /\ (~last.arg.server.reachable \/ last.arg.name \notin last.arg.server.tags)

\* What "nothing" is for the operation: false, None or the empty dict.
Nothing ==
    IF last.op \in {"GitFactory.has_local_branch", "GitFactory.has_tracking_branch",
                    "GitFactory.has_remote_branch"}
    THEN last.val = FALSE
    ELSE IF last.op = "GitOnline.get_remote_branches_info"
    THEN DOMAIN last.val = {}
    ELSE last.val = "None"

\* C17: a read operation that finds nothing returns false, an empty
\* collection or None and does not raise; get_remote_tag_sha returns the sha
\* of a tag that exists, without raising.
C17_Original ==
    /\ FoundNothing => (last.exc = "None" /\ Nothing)
    /\ (/\ last.op = "GitOnline.get_remote_tag_sha"
        /\ last.arg.server.reachable
        /\ last.arg.name \in last.arg.server.tags)
       => (last.exc = "None" /\ last.val = "s1")

(***************************************************************************)
(* GitOffline.git_config_unset_all_local.  The local config is the set of  *)
(* variables it holds.                                                     *)
(***************************************************************************)
ConfigVariables == {"clowder.a", "clowder.b"}

\* What else can go wrong with `git config`: nothing, or the config file
\* cannot be written (exit code 4), or the directory is no repository
\* (exit code 128).
ConfigFaults == {0, 4, 128}

\* git's exit code for unsetting a variable that does not exist.
NoSuchKey == 5

\* `git config --local --unset-all <variable>`: the exit code and the config
\* it leaves.
git_config_unset_all(config, variable, fault) ==
    IF fault # 0 THEN [returncode |-> fault, config |-> config]
    ELSE IF variable \in config
    THEN [returncode |-> 0, config |-> config \ {variable}]
    ELSE [returncode |-> NoSuchKey, config |-> config]

\* cmd.run, a checked run: CalledProcessError carrying the exit code when it
\* is not 0, else the CompletedProcess.
cmd_run(completed) ==
    IF completed.returncode # 0
    THEN [exc |-> "CalledProcessError", val |-> completed.returncode]
    ELSE Ok("CompletedProcess")

\* git_config_unset_all_local without the except clause.
git_config_unset_all_local_Unhandled(config, variable, fault) ==
    cmd_run(git_config_unset_all(config, variable, fault))

\* try: return cmd.run(...)
\* except CalledProcessError as err: if err.returncode != 5: raise
git_config_unset_all_local(config, variable, fault) ==
    LET r == cmd_run(git_config_unset_all(config, variable, fault))
    IN  IF r.exc = "CalledProcessError"
        THEN IF r.val # NoSuchKey THEN r ELSE Ok("None")
        ELSE r

GitConfigUnsetAllLocal(config, variable, fault) ==
    /\ Idle
    /\ last' = Outcome("GitOffline.git_config_unset_all_local",
                       [config |-> config, variable |-> variable,
                        fault |-> fault,
                        config_after |->
                            git_config_unset_all(config, variable, fault).config],
                       git_config_unset_all_local(config, variable, fault),
                       <<"git config --local --unset-all">>, 0)
    /\ UNCHANGED gitRepo
    /\ UNCHANGED poolVars

\* C18: git_config_unset_all_local does not raise when the variable does not
\* exist (exit code 5) and leaves the config as it is, so that unsetting is
\* idempotent; it unsets a variable that exists; any other non-zero exit
\* code is re-raised with that code.
C18_UnsetIdempotent ==
    last.op = "GitOffline.git_config_unset_all_local"
    => /\ last.arg.variable \notin last.arg.config_after \/ last.arg.fault # 0
       /\ IF last.arg.fault # 0
          THEN /\ last.exc = "CalledProcessError"
               /\ last.val = last.arg.fault
               /\ last.arg.config_after = last.arg.config
          ELSE /\ last.exc = "None"
               /\ last.arg.variable \notin last.arg.config
                  => last.arg.config_after = last.arg.config

\* C18 (witness): a variable that does not exist was unset and nothing was
\* raised.
C18_Witness ==
    /\ last.op = "GitOffline.git_config_unset_all_local"
    /\ last.arg.fault = 0
    /\ last.arg.variable \notin last.arg.config
    /\ last.arg.config # {}
    /\ last.exc = "None"

(***************************************************************************)
(* The parsers applied to well-formed output.                              *)
(***************************************************************************)
ListedRemoteNames == <<"origin", "upstream">>

ListedUrls == {"url1", "url2"}

\* What `git remote -v` can list: for each name whether the remote exists,
\* and its two urls.
RemoteListings ==
    [{"origin", "upstream"} ->
        [present : BOOLEAN, fetch_url : ListedUrls, push_url : ListedUrls]]

\* The output for a listing: "<name> <url> (fetch)" and "<name> <url> (push)"
\* for every remote that exists.
remote_v_output(listing) ==
    Concat([i \in 1..Len(ListedRemoteNames) |->
        IF listing[ListedRemoteNames[i]].present
        THEN << <<ListedRemoteNames[i],
                  listing[ListedRemoteNames[i]].fetch_url, "(fetch)">>,
                <<ListedRemoteNames[i],
                  listing[ListedRemoteNames[i]].push_url, "(push)">> >>
        ELSE <<>>])

ParseRemotes(listing) ==
    /\ Idle
    /\ last' = Outcome("ProcessOutput.remotes", [listing |-> listing],
                       ProcessOutput_remotes(remote_v_output(listing)),
                       <<>>, 0)
    /\ UNCHANGED gitRepo
    /\ UNCHANGED poolVars

\* C19: ProcessOutput.remotes maps well-formed `git remote -v` output to one
\* record per remote name with that remote's fetch_url and push_url; the two
\* lines of origin url1 give {origin: {fetch_url: url1, push_url: url1}}.
C19_Original ==
    last.op = "ProcessOutput.remotes"
    => /\ last.exc = "None"
       /\ DOMAIN last.val = {n \in {"origin", "upstream"} :
                                 last.arg.listing[n].present}
       /\ \A n \in DOMAIN last.val :
             /\ last.val[n].fetch_url = last.arg.listing[n].fetch_url
             /\ last.val[n].push_url = last.arg.listing[n].push_url

\* The output of `git rev-parse --symbolic-full-name <branch>@{upstream}`
\* given to the parser, also with a branch name of two components and with
\* a prefix that is neither refs/heads nor refs/remotes.
UpstreamOutputs ==
    {<<"refs", "heads", "main">>,
     <<"refs", "heads", "feature", "x">>,
     <<"refs", "remotes", "origin", "main">>,
     <<"refs", "remotes", "origin", "feature", "x">>,
     <<"refs", "tags", "v1">>}

ParseTrackingBranch(output) ==
    /\ Idle
    /\ last' = Outcome("ProcessOutput.tracking_branches", [output |-> output],
                       ProcessOutput_tracking_branches(output), <<>>, 0)
    /\ UNCHANGED gitRepo
    /\ UNCHANGED poolVars

\* C20: ProcessOutput.tracking_branches maps refs/heads/<name> to remote None
\* and branch <name>, refs/remotes/<remote>/<name> to that remote and the
\* full name, and fails on any other prefix.
C20_Original ==
    last.op = "ProcessOutput.tracking_branches"
    => LET output == last.arg.output
       IN  IF IsPrefix(<<"refs", "heads">>, output)
           THEN /\ last.exc = "None"
                /\ last.val.remote = "None"
                /\ last.val.branch = SubSeq(output, 3, Len(output))
           ELSE IF IsPrefix(<<"refs", "remotes">>, output)
           THEN /\ last.exc = "None"
                /\ last.val.remote = output[3]
                /\ <<last.val.branch>> = SubSeq(output, 4, Len(output))
           ELSE last.exc # "None"

(***************************************************************************)
(* Ref.truncate_ref after Ref.format_git_branch / Ref.format_git_tag.  A   *)
(* name is the sequence of its "/"-separated components.                   *)
(***************************************************************************)
MaxRefLen == 3

RefComponents == {"refs", "heads", "tags", "main"}

\* The branch and tag names: every sequence of one to MaxRefLen components
\* is a name git accepts.
RECURSIVE RefTexts(_)
RefTexts(n) ==
    IF n = 0 THEN {<<>>}
    ELSE {<<>>} \cup {Append(t, c) : t \in RefTexts(n - 1), c \in RefComponents}

ValidRefNames == RefTexts(MaxRefLen) \ {<<>>}

\* Ref.truncate_ref that strips refs/heads/ only.
truncate_ref_HeadsOnly(ref) ==
    IF StartsWithDir(ref, <<"refs", "heads">>) THEN SubSeq(ref, 3, Len(ref))
    ELSE ref

truncate_ref(ref) ==
    IF StartsWithDir(ref, <<"refs", "heads">>) THEN SubSeq(ref, 3, Len(ref))
    ELSE IF StartsWithDir(ref, <<"refs", "tags">>) THEN SubSeq(ref, 3, Len(ref))
    ELSE ref

\* Ref.truncate_ref(Ref.format_git_branch(branch))
TruncateFormattedBranch(branch) ==
    /\ Idle
    /\ last' = Outcome("truncate_ref(format_git_branch)", branch,
                       Ok(truncate_ref(format_git_branch(branch))), <<>>, 0)
    /\ UNCHANGED gitRepo
    /\ UNCHANGED poolVars

\* Ref.truncate_ref(Ref.format_git_tag(tag))
TruncateFormattedTag(tag) ==
    /\ Idle
    /\ last' = Outcome("truncate_ref(format_git_tag)", tag,
                       Ok(truncate_ref(format_git_tag(tag))), <<>>, 0)
    /\ UNCHANGED gitRepo
    /\ UNCHANGED poolVars

\* C21 (as stated): for any valid branch name B,
\* truncate_ref(format_git_branch(B)) = B, and for any valid tag name T,
\* truncate_ref(format_git_tag(T)) = T.
C21_Original ==
    last.op \in {"truncate_ref(format_git_branch)", "truncate_ref(format_git_tag)"}
    => last.val = last.arg

\* C21 (amended): the round trip returns B for a branch name B that does not
\* itself start with refs/heads/, and T for a tag name T that does not
\* itself start with refs/tags/; a name that already has the prefix comes
\* back without it.
C21_RoundTrip ==
    /\ last.op = "truncate_ref(format_git_branch)"
       => IF StartsWithDir(last.arg, <<"refs", "heads">>)
          THEN last.val = SubSeq(last.arg, 3, Len(last.arg))
          ELSE last.val = last.arg
    /\ last.op = "truncate_ref(format_git_tag)"
       => IF StartsWithDir(last.arg, <<"refs", "tags">>)
          THEN last.val = SubSeq(last.arg, 3, Len(last.arg))
          ELSE last.val = last.arg

\* C21 (witness): a branch name that starts with refs/tags/ made the round
\* trip unchanged.
C21_Witness ==
    /\ last.op = "truncate_ref(format_git_branch)"
    /\ last.arg = <<"refs", "tags", "main">>
    /\ last.val = last.arg

\* Python values of the parameters of submodule_update: a bool is "True" or
\* "False", an Optional[int] is "None" or the number as text, and an
\* Optional[List[Path]] is <<>> for None or <<list>> for a list.
PyBools == {"True", "False"}

OptionalInts == {"None", "4"}

OptionalPathLists == {<<>>, << <<>> >>, << <<"lib">> >>}

\* `if cond: args += words`
Switch(cond, words) == IF cond THEN words ELSE <<>>

\* GitOnline.submodule_update: the words of the command line it runs.
GitOnline_submodule_update(init, depth, single_branch, num_jobs, recursive, remote, no_fetch, checkout, rebase, merge, paths) ==
    <<"git", "submodule", "update">>
    \o Switch(init = "True", <<"--init">>)
    \o Switch(single_branch = "True", <<"--single-branch">>)
    \o Switch(num_jobs # "None", <<"--jobs", num_jobs>>)
    \o Switch(depth # "None", <<"--depth", depth>>)
    \o Switch(recursive # "None", <<"--recursive">>)
    \o Switch(remote = "True", <<"--remote">>)
    \o Switch(no_fetch = "True", <<"--no-fetch">>)
    \o Switch(checkout = "True", <<"--checkout">>)
    \o Switch(merge = "True", <<"--merge">>)
    \o Switch(rebase = "True", <<"--rebase">>)
    \o (IF paths # <<>> /\ paths[1] # <<>> THEN paths[1] ELSE <<>>)

\* Repo.submodule_update passes its parameters on; no_fetch keeps its
\* default.
Repo_submodule_update(init, depth, single_branch, num_jobs, recursive, remote, checkout, rebase, merge, paths) ==
    GitOnline_submodule_update(init, depth, single_branch, num_jobs, recursive,
                               remote, "False", checkout, rebase, merge, paths)

SubmoduleUpdate(init, depth, single_branch, num_jobs, recursive, remote, checkout, rebase, merge, paths) ==
    /\ Idle
    /\ last' = Outcome("Repo.submodule_update",
                       [init |-> init, depth |-> depth,
                        single_branch |-> single_branch, jobs |-> num_jobs,
                        recursive |-> recursive, remote |-> remote,
                        checkout |-> checkout, rebase |-> rebase,
                        merge |-> merge, paths |-> paths],
                       Ok("None"),
                       <<Repo_submodule_update(init, depth, single_branch, num_jobs,
                                               recursive, remote, checkout,
                                               rebase, merge, paths)>>, 0)
    /\ UNCHANGED gitRepo
    /\ UNCHANGED poolVars

\* The switches of the one command line the last operation issued.
IssuedWords == {last.cmds[1][k] : k \in 1..Len(last.cmds[1])}

\* C25: submodule_update puts each optional switch on the git submodule
\* update command line exactly when its parameter is set: --recursive if and
\* only if recursive is true, and likewise --init, --remote, --checkout,
\* --merge and --rebase.
C25_Original ==
    last.op = "Repo.submodule_update"
    => /\ ("--recursive" \in IssuedWords) <=> (last.arg.recursive = "True")
       /\ ("--init" \in IssuedWords) <=> (last.arg.init = "True")
       /\ ("--remote" \in IssuedWords) <=> (last.arg.remote = "True")
       /\ ("--checkout" \in IssuedWords) <=> (last.arg.checkout = "True")
       /\ ("--merge" \in IssuedWords) <=> (last.arg.merge = "True")
       /\ ("--rebase" \in IssuedWords) <=> (last.arg.rebase = "True")

\* The task pool idle with one job, next to a fresh repository.
GitStart == PoolInit /\ jobs = 1 /\ GitInit

Init == PoolInit /\ GitInit

Next == PoolNext

Spec == Init /\ [][Next]_vars

\* The event loop runs every coroutine that can run, worker threads start,
\* and every run() that was started returns or raises.
Fairness ==
    /\ WF_vars(LoopEnter)
    /\ WF_vars(StartSoon)
    /\ WF_vars(LoopCancelled)
    /\ WF_vars(RunEnd)
    /\ \A i \in 1..MaxTasks :
          /\ WF_vars(TaskStart(i))
          /\ WF_vars(ThreadStart(i))
          /\ WF_vars(ThreadReturn(i) \/ ThreadRaise(i))
          /\ WF_vars(TaskDone(i))
          /\ WF_vars(TaskFailed(i))

LiveSpec == Spec /\ Fairness

\* The task pool with runs of other pools made from inside run().
NestedSpec == Init /\ [][NestedNext]_vars

GitSpec == GitStart /\ [][GitNext]_vars

\* Operations applied to given inputs: parsers, predicates, constructors.
QueryNext ==
    \/ \E gm \in GitmodulesFiles, cfg \in ConfigFiles : GetSubmodulesInfo(gm, cfg)
    \/ \E gm \in GitmodulesFiles, cfg \in ConfigFiles, p \in SubmodulePaths :
          IsSubmoduleInitialized(gm, cfg, p)
    \/ \E gm \in GitmodulesFiles, cfg \in ConfigFiles, p \in SubmodulePaths,
          d \in GitDirs : IsSubmoduleCloned(gm, cfg, p, d)
    \/ \E w \in Worktrees(MaxNesting), allow_missing \in BOOLEAN :
          RepoIsValid(w, allow_missing)
    \/ \E name \in RefNames : ConstructBranch(name)
    \/ \E name \in RefNames : ConstructTag(name)
    \/ \E sha \in Shas : ConstructCommit(sha)
    \/ \E path1, path2 \in RepoPaths, sha1, sha2 \in Shas :
          CommitEq(path1, sha1, path2, sha2)
    \/ \E server \in Servers : OnlineGetDefaultBranch(server)
    \/ \E server \in Servers, name \in TagNames : OnlineGetRemoteTagSha(server, name)
    \/ \E server \in Servers : OnlineGetRemoteBranchesInfo(server)
    \/ \E name \in BranchNames : HasLocalBranch(name)
    \/ \E name \in BranchNames : HasTrackingBranch(name)
    \/ \E name \in BranchNames, remote \in RemoteNames : HasRemoteBranch(name, remote)
    \/ \E config \in SUBSET ConfigVariables, variable \in ConfigVariables,
          fault \in ConfigFaults : GitConfigUnsetAllLocal(config, variable, fault)
    \/ \E listing \in RemoteListings : ParseRemotes(listing)
    \/ \E output \in UpstreamOutputs : ParseTrackingBranch(output)
    \/ \E branch \in ValidRefNames : TruncateFormattedBranch(branch)
    \/ \E tag \in ValidRefNames : TruncateFormattedTag(tag)
    \/ \E init, single_branch, recursive, remote, checkout, rebase, merge \in PyBools,
          depth, num_jobs \in OptionalInts, paths \in OptionalPathLists :
          SubmoduleUpdate(init, depth, single_branch, num_jobs, recursive, remote,
                          checkout, rebase, merge, paths)

QuerySpec == GitStart /\ [][QueryNext]_vars

\* The pool of pygoodle/task_pool.py, next to a fresh repository.
LegacySpec == Init /\ [][LegacyNext]_vars

====
